---- MODULE Spec2Model ----
(***************************************************************************)
(* The sql-chain of a database: a time-sliced block chain whose producer   *)
(* rotates over the peer list.  Every peer owns one Chain (store, block    *)
(* index, query index, runtime) and runs two tasks on it: mainCycle, which *)
(* fetches missing blocks and produces a block on its own turn, and        *)
(* processBlocks, which takes blocks from the unbuffered blocks channel    *)
(* and pushes them.  Peers in `remote` are not run as chains: what they    *)
(* advise and what they answer to FetchBlock / FetchAckedQuery is input.   *)
(***************************************************************************)
EXTENDS Integers, Sequences, FiniteSets, TLC

VARIABLES
    now,        \* wall clock, in ticks
    remote,     \* peers whose blocks and RPC answers are input
    peers,      \* rt.peers of every chain: the list of servers
    nextTurn,   \* rt.nextTurn
    head,       \* rt.head: [Head, Height, node]
    bi,         \* blockIndex: hash -> blockNode
    db,         \* the bolt store: [state, blocks, acks]
    qi,         \* queryIndex: [barrier, acks]
    mc,         \* mainCycle: [pc, blk, todo]
    pb,         \* processBlocks: [pc, blk, stash, tx, pre, missed, via]
    helpers,    \* running returnStash goroutines: what each still has to send
    envLeft,    \* blocks the remote peers may still send
    clients,    \* the acks clients send and remote blocks list
    produced,   \* history: the blocks produceBlock signed, per chain
    ctl,        \* shutdown: the stop channels, the two idle tasks, the store
    acking,     \* acks between the tests of VerifyAndPushAckedQuery and pushAckedQuery
    worker,     \* worker.Database: [SpaceLimit, stat, size, applied], the storage file
    last        \* the call that has just returned and what it returned

vars == <<now, remote, peers, nextTurn, head, bi, db, qi, mc, pb, helpers,
          envLeft, clients, produced, ctl, acking, worker, last>>

----------------------------------------------------------------------------
\* Bounds of the model.

\* The clock stops at MaxTime ticks.
MaxTime == 6
\* Ticks per period (Config.Period).
Period == 2
\* Config.QueryTTL, in periods.
QueryTTL == 1
\* Number of distinct acknowledged queries.
MaxAcks == 2
\* Blocks the remote peers send (advised or returned by FetchBlock).
MaxEnv == 1
\* The greatest SpaceLimit of a database, in units of storage.
MaxSize == 3
\* The write queries a database is handed.
MaxWrites == 3

\* The timestamp of the genesis block (rt.chainInitTime).
GenesisTime == 0

Servers == <<"A", "B", "C">>
Nodes == {Servers[i] : i \in 1..Len(Servers)}
\* A producer that is in no peer list.
Stranger == "X"

\* No block, node, ack or transaction.
Nil == [nil |-> TRUE]
\* A call returns no error.
NoErr == "nil"
NoHash == <<>>
BogusHash == <<"bogus">>

MaxHeight == (MaxTime - GenesisTime) \div Period

----------------------------------------------------------------------------
\* Data: blocks, hashes, block nodes, acks.

\* Block.SignedHeader.BlockHash: the hash of the header. Queries stand for the
\* merkle root; the signature is not part of it.
BlockHash(b) == <<b.Producer, b.ParentHash, b.Timestamp, b.Queries>>

\* Block.Verify: signature and merkle root.
Verify(b) == b.sig

Genesis ==
    [Producer |-> Servers[1], ParentHash |-> NoHash, Timestamp |-> GenesisTime,
     Queries |-> <<>>, sig |-> TRUE]

\* runtime.getHeightFromTime
getHeightFromTime(t) == (t - GenesisTime) \div Period

\* newBlockNode / blockNode.initBlockNode
newBlockNode(h, b, parent) == [hash |-> BlockHash(b), height |-> h, parent |-> parent]

\* blockNode.indexKey: the key of the block in the block-index bucket.
indexKey(node) == node.hash

\* blockNode.ancestor: follow the parents down to the given height.
RECURSIVE ancestor(_, _)
ancestor(node, h) ==
    IF node = Nil THEN Nil
    ELSE IF node.height = h THEN node
    ELSE ancestor(node.parent, h)

\* The nodes from a node back to the root, the node first.
RECURSIVE chainOf(_)
chainOf(node) == IF node = Nil THEN <<>> ELSE <<node>> \o chainOf(node.parent)

\* The acknowledged queries: ack i answers a request of time (i-1)*Period.
Acks == {[id |-> i, ts |-> GenesisTime + (i - 1) * Period] : i \in 1..MaxAcks}
\* SignedAckHeader.HeaderHash
AckHash(a) == <<a.id, a.ts>>
AckOfHash(x) == CHOOSE a \in Acks : AckHash(a) = x

\* A set of ack hashes as a list, lowest id first.
RECURSIVE SortAcks(_)
SortAcks(S) ==
    IF S = {} THEN <<>>
    ELSE LET m == CHOOSE x \in S : \A y \in S : x[1] <= y[1]
         IN <<m>> \o SortAcks(S \ {m})

Range(s) == {s[i] : i \in 1..Len(s)}

\* kayak.Peers.Find: the index of a server in the list, from 0.
Find(ps, id) ==
    IF \E i \in 1..Len(ps) : ps[i] = id
    THEN [index |-> (CHOOSE i \in 1..Len(ps) : ps[i] = id) - 1, found |-> TRUE]
    ELSE [index |-> -1, found |-> FALSE]

----------------------------------------------------------------------------
\* queryIndex

\* queryIndex.addAck: insert; a duplicate collapses.
addAck(q, h, a) ==
    IF \E e \in q.acks : e.h = h /\ e.ack = a THEN q
    ELSE [q EXCEPT !.acks = @ \cup {[h |-> h, ack |-> a, signed |-> FALSE]}]

\* queryIndex.markAndCollectUnsignedAcks: the unsigned acks below the turn.
collectUnsigned(q, turn) == {e \in q.acks : ~e.signed /\ e.h < turn}
markAndCollectUnsignedAcks(q, turn) ==
    [list |-> SortAcks({AckHash(e.ack) : e \in collectUnsigned(q, turn)}),
     qi |-> [q EXCEPT !.acks =
                {IF e \in collectUnsigned(q, turn) THEN [e EXCEPT !.signed = TRUE] ELSE e
                    : e \in @}]]

\* queryIndex.checkAckFromBlock: is the ack known as of height h.
checkAckFromBlock(q, h, x) == \E e \in q.acks : e.h <= h /\ AckHash(e.ack) = x

\* queryIndex.getAck: the ack known as of height h, or an error.
getAck(q, h, x) ==
    IF checkAckFromBlock(q, h, x)
    THEN [ack |-> (CHOOSE e \in q.acks : e.h <= h /\ AckHash(e.ack) = x).ack, err |-> NoErr]
    ELSE [ack |-> Nil, err |-> "ErrQueryNotCached"]

\* queryIndex.setSignedBlock: mark the acks a block lists as signed.
setSignedBlock(q, h, b) ==
    [q EXCEPT !.acks =
        {IF AckHash(e.ack) \in Range(b.Queries) THEN [e EXCEPT !.signed = TRUE] ELSE e
            : e \in @}]

\* queryIndex.advanceBarrier: forget what is below the barrier.
advanceBarrier(q, height) ==
    IF height <= q.barrier THEN q
    ELSE [barrier |-> height, acks |-> {e \in q.acks : e.h >= height}]

----------------------------------------------------------------------------
\* runtime

\* runtime.isMyTurn
isMyTurn(n) ==
    /\ Len(peers[n]) > 0
    /\ peers[n][(nextTurn[n] % Len(peers[n])) + 1] = n

\* runtime.queryTimeIsExpired
queryTimeIsExpired(n, t) == getHeightFromTime(t) < head[n].Height - QueryTTL

\* runtime.getMinValidHeight
getMinValidHeight(n) == head[n].Height - QueryTTL

\* runtime.nextTick: the time left before the period of nextTurn starts.
nextTick(n) == GenesisTime + nextTurn[n] * Period - now

----------------------------------------------------------------------------
\* The store and the query paths.

\* Chain.pushAckedQuery: put the ack under its height, then add it to the index.
pushAckedQuery(q, d, a) ==
    LET h == getHeightFromTime(a.ts)
    IN [err |-> NoErr,
        qi |-> addAck(q, h, a),
        db |-> [d EXCEPT !.acks = @ \cup {[h |-> h, ack |-> a]}]]

\* Chain.VerifyAndPushAckedQuery with ack.Verify() put before the expiry test.
VerifyBeforeExpiry(n, q, d, a, ok) ==
    IF ~ok THEN [err |-> "ErrVerify", qi |-> q, db |-> d]
    ELSE IF queryTimeIsExpired(n, a.ts) THEN [err |-> "ErrQueryExpired", qi |-> q, db |-> d]
    ELSE pushAckedQuery(q, d, a)
\* Chain.VerifyAndPushAckedQuery on the index q and store d of chain n; ok is
\* the outcome of ack.Verify().
VerifyAndPushAckedQuery(n, q, d, a, ok) ==
    IF queryTimeIsExpired(n, a.ts) THEN [err |-> "ErrQueryExpired", qi |-> q, db |-> d]
    ELSE IF ~ok THEN [err |-> "ErrVerify", qi |-> q, db |-> d]
    ELSE pushAckedQuery(q, d, a)

\* Chain.FetchAckedQuery: from the index, else from the store. The loop over
\* the store reads the bucket of `height` on every round and keeps the
\* decoded ack only when decoding failed, which stored acks never do.
FetchAckedQuery(n, height, x) ==
    LET r == getAck(qi[n], height, x)
    IN IF r.err = NoErr THEN r ELSE [ack |-> Nil, err |-> NoErr]

\* Chain.FetchBlock: the ancestor of head at the height, read from the store.
FetchBlock(n, height) ==
    LET node == ancestor(head[n].node, height)
    IN IF node = Nil THEN Nil
       ELSE IF indexKey(node) \in DOMAIN db[n].blocks THEN db[n].blocks[indexKey(node)]
       ELSE Nil

\* What a FetchAckedQuery call to the producer of a block can answer: a remote
\* peer fails or sends any ack; a chain answers with its FetchAckedQuery, and
\* when that is no ack VerifyAndPushAckedQuery reads through a nil pointer.
AckReplies(n, producer, height, x) ==
    IF producer \notin Nodes \ remote
    THEN {[err |-> "ErrRPC"]} \cup {[err |-> NoErr, ack |-> a, ok |-> v] : a \in Acks, v \in BOOLEAN}
    ELSE LET r == FetchAckedQuery(producer, height, x)
         IN IF r.ack = Nil THEN {[err |-> "panic"]}
            ELSE {[err |-> NoErr, ack |-> r.ack, ok |-> TRUE]}

\* Chain.syncAckedQuery: fetch the ack from the producer, verify and push it.
syncAckedQuery(n, q, d, reply) ==
    IF reply.err # NoErr THEN [err |-> reply.err, qi |-> q, db |-> d]
    ELSE VerifyAndPushAckedQuery(n, q, d, reply.ack, reply.ok)

\* The loop of CheckAndPushNewBlock over block.Queries, from query i on.
\* missed records that a check after a fetch did not find the ack.
RECURSIVE checkQueries(_, _, _, _, _, _, _)
checkQueries(n, b, i, q, d, replies, missed) ==
    IF i > Len(b.Queries) THEN [err |-> NoErr, qi |-> q, db |-> d, missed |-> missed]
    ELSE LET height == getHeightFromTime(b.Timestamp)
             x == b.Queries[i]
         IN IF checkAckFromBlock(q, height, x)
            THEN checkQueries(n, b, i + 1, q, d, replies, missed)
            ELSE LET r == syncAckedQuery(n, q, d, replies[i])
                 IN IF r.err # NoErr
                    THEN [err |-> r.err, qi |-> r.qi, db |-> r.db, missed |-> missed]
                    ELSE checkQueries(n, b, i + 1, r.qi, r.db, replies,
                                      missed \/ ~checkAckFromBlock(r.qi, height, x))

\* Chain.CheckAndPushNewBlock without the test that Find found the producer.
CheckAndPushNewBlockNoFound(n, b, replies) ==
    LET height == getHeightFromTime(b.Timestamp)
        hd == head[n]
        total == Len(peers[n])
        next == IF total > 0 THEN (hd.Height + 1) % total ELSE -1
        f == Find(peers[n], b.Producer)
        same == [err |-> NoErr, qi |-> qi[n], db |-> db[n], missed |-> FALSE]
    IN IF hd.Height = height /\ hd.Head = BlockHash(b) THEN [same EXCEPT !.err = "same"]
       ELSE IF b.ParentHash # hd.Head THEN [same EXCEPT !.err = "ErrInvalidBlock"]
       ELSE IF f.index # next THEN [same EXCEPT !.err = "ErrInvalidProducer"]
       ELSE LET r == checkQueries(n, b, 1, qi[n], db[n], replies, FALSE)
            IN IF r.err # NoErr THEN r
               ELSE IF ~Verify(b) THEN [r EXCEPT !.err = "ErrVerify"]
               ELSE r

\* Chain.CheckAndPushNewBlock without the test for the block that is head.
CheckAndPushNewBlockNoHeadTest(n, b, replies) ==
    LET hd == head[n]
        total == Len(peers[n])
        next == IF total > 0 THEN (hd.Height + 1) % total ELSE -1
        f == Find(peers[n], b.Producer)
        same == [err |-> NoErr, qi |-> qi[n], db |-> db[n], missed |-> FALSE]
    IN IF b.ParentHash # hd.Head THEN [same EXCEPT !.err = "ErrInvalidBlock"]
       ELSE IF ~f.found THEN [same EXCEPT !.err = "ErrUnknownProducer"]
       ELSE IF f.index # next THEN [same EXCEPT !.err = "ErrInvalidProducer"]
       ELSE LET r == checkQueries(n, b, 1, qi[n], db[n], replies, FALSE)
            IN IF r.err # NoErr THEN r
               ELSE IF ~Verify(b) THEN [r EXCEPT !.err = "ErrVerify"]
               ELSE r

\* Chain.CheckAndPushNewBlock with the test of the parent put last, after
\* the tests of producer, acks and signature.
CheckAndPushNewBlockParentLast(n, b, replies) ==
    LET height == getHeightFromTime(b.Timestamp)
        hd == head[n]
        total == Len(peers[n])
        next == IF total > 0 THEN (hd.Height + 1) % total ELSE -1
        f == Find(peers[n], b.Producer)
        same == [err |-> NoErr, qi |-> qi[n], db |-> db[n], missed |-> FALSE]
    IN IF hd.Height = height /\ hd.Head = BlockHash(b) THEN [same EXCEPT !.err = "same"]
       ELSE IF ~f.found THEN [same EXCEPT !.err = "ErrUnknownProducer"]
       ELSE IF f.index # next THEN [same EXCEPT !.err = "ErrInvalidProducer"]
       ELSE LET r == checkQueries(n, b, 1, qi[n], db[n], replies, FALSE)
            IN IF r.err # NoErr THEN r
               ELSE IF ~Verify(b) THEN [r EXCEPT !.err = "ErrVerify"]
               ELSE IF b.ParentHash # hd.Head THEN [r EXCEPT !.err = "ErrInvalidBlock"]
               ELSE r

\* Chain.CheckAndPushNewBlock without the test of the producer's place in the
\* peer list.
CheckAndPushNewBlockAnyPeer(n, b, replies) ==
    LET height == getHeightFromTime(b.Timestamp)
        hd == head[n]
        f == Find(peers[n], b.Producer)
        same == [err |-> NoErr, qi |-> qi[n], db |-> db[n], missed |-> FALSE]
    IN IF hd.Height = height /\ hd.Head = BlockHash(b) THEN [same EXCEPT !.err = "same"]
       ELSE IF b.ParentHash # hd.Head THEN [same EXCEPT !.err = "ErrInvalidBlock"]
       ELSE IF ~f.found THEN [same EXCEPT !.err = "ErrUnknownProducer"]
       ELSE LET r == checkQueries(n, b, 1, qi[n], db[n], replies, FALSE)
            IN IF r.err # NoErr THEN r
               ELSE IF ~Verify(b) THEN [r EXCEPT !.err = "ErrVerify"]
               ELSE r
\* Chain.CheckAndPushNewBlock up to the call of pushBlock: the error it
\* returns (NoErr: go on to pushBlock, "same": the block is head already) and
\* the index and store the ack fetches leave.
CheckAndPushNewBlock(n, b, replies) ==
    LET height == getHeightFromTime(b.Timestamp)
        hd == head[n]
        total == Len(peers[n])
        next == IF total > 0 THEN (hd.Height + 1) % total ELSE -1
        f == Find(peers[n], b.Producer)
        same == [err |-> NoErr, qi |-> qi[n], db |-> db[n], missed |-> FALSE]
    IN IF hd.Height = height /\ hd.Head = BlockHash(b) THEN [same EXCEPT !.err = "same"]
       ELSE IF b.ParentHash # hd.Head THEN [same EXCEPT !.err = "ErrInvalidBlock"]
       ELSE IF ~f.found THEN [same EXCEPT !.err = "ErrUnknownProducer"]
       ELSE IF f.index # next THEN [same EXCEPT !.err = "ErrInvalidProducer"]
       ELSE LET r == checkQueries(n, b, 1, qi[n], db[n], replies, FALSE)
            IN IF r.err # NoErr THEN r
               ELSE IF ~Verify(b) THEN [r EXCEPT !.err = "ErrVerify"]
               ELSE r

----------------------------------------------------------------------------
\* The state after NewChain and Start on every chain.

GenesisNode == newBlockNode(getHeightFromTime(Genesis.Timestamp), Genesis, Nil)

\* No call has returned: op is the call, n the chain, err what it returned;
\* blk, pushed, missed and pre tell of a block (pre: head and block index
\* before pushBlock, and the acks it marked), req and ack of an ack.
NoCall ==
    [op |-> "none", n |-> "none", err |-> NoErr, blk |-> Nil, pushed |-> FALSE,
     missed |-> FALSE, pre |-> Nil, req |-> NoHash, ack |-> Nil]

\* Chain.Start has run: rt.stopCh, c.stopCh and rsCh are open, processResponses
\* and processAcks run, the store is open.
Started ==
    [rtStopCh |-> "open", stopCh |-> "open", rsCh |-> "open",
     processResponses |-> "run", processAcks |-> "run", db |-> "open"]

\* A database without SpaceLimit, its storage file not yet written, no write
\* query handed to the replicated log.
NoLimit == [SpaceLimit |-> 0, stat |-> "missing", size |-> 0, applied |-> 0]

\* bolt Bucket.Put
Put(f, k, v) == [x \in DOMAIN f \cup {k} |-> IF x = k THEN v ELSE f[x]]

\* NewChain with the peer list ps: the genesis block pushed into the store and
\* the indexes; Start: the tasks at their loops, nextTurn = head.Height + 1.
NewChainWith(ps, rem, env, cl, w) ==
    /\ now = GenesisTime
    /\ remote = rem
    /\ peers = [n \in Nodes |-> ps]
    /\ nextTurn = [n \in Nodes |-> GenesisNode.height + 1]
    /\ head = [n \in Nodes |->
                [Head |-> GenesisNode.hash, Height |-> GenesisNode.height,
                 node |-> GenesisNode]]
    /\ bi = [n \in Nodes |-> (GenesisNode.hash :> GenesisNode)]
    /\ db = [n \in Nodes |->
                [state |-> [Head |-> GenesisNode.hash, Height |-> GenesisNode.height],
                 blocks |-> (indexKey(GenesisNode) :> Genesis),
                 acks |-> {}]]
    /\ qi = [n \in Nodes |-> [barrier |-> 0, acks |-> {}]]
    /\ mc = [n \in Nodes |-> [pc |-> "loop", blk |-> Nil, todo |-> {}]]
    /\ pb = [n \in Nodes |->
                [pc |-> "select", blk |-> Nil, stash |-> <<>>, tx |-> Nil,
                 pre |-> Nil, missed |-> FALSE, via |-> "none"]]
    /\ helpers = [n \in Nodes |-> <<>>]
    /\ envLeft = env
    /\ clients = cl
    /\ produced = [n \in Nodes |-> {}]
    /\ ctl = [n \in Nodes |-> Started]
    /\ acking = [n \in Nodes |-> {}]
    /\ worker = w
    /\ last = NoCall

\* NewChain and Start for a database without SpaceLimit, ps being the peers.
NewChainOf(ps, rem, env, cl) == NewChainWith(ps, rem, env, cl, NoLimit)

\* NewChain and Start with the three servers as peers.
NewChain(rem, env, cl) == NewChainOf(Servers, rem, env, cl)

\* The third server runs, the others are remote.
Init == NewChain(Nodes \ {Servers[3]}, MaxEnv, {})

\* The blocks a remote peer can send to chain n: a block n produced itself,
\* or a block in the name of another producer, of the turn chain n is in or
\* of the one before, on the head of n or on no block n has, signed well or
\* not.
EnvBlocks(n) ==
    produced[n] \cup
    {b \in [Producer : (Nodes \ {n}) \cup {Stranger},
            ParentHash : {head[n].Head, BogusHash},
            Timestamp : {GenesisTime + h * Period : h \in 0..MaxHeight},
            Queries : {<<>>} \cup {<<AckHash(a)>> : a \in clients},
            sig : BOOLEAN] :
        getHeightFromTime(b.Timestamp) \in {nextTurn[n] - 1, nextTurn[n]}}

\* The record of a call that returned.
Returned(op, n, err) == [NoCall EXCEPT !.op = op, !.n = n, !.err = err]

----------------------------------------------------------------------------
\* mainCycle

\* The mainCycles of the chains that run go round one after the other, in the
\* order of the server list: the one of chain n starts a round when those of
\* the chains before it sleep.
inOrder(n) ==
    \A i \in 1..Len(Servers) :
        (Servers[i] \notin remote /\ i < Find(Servers, n).index + 1) =>
            (mc[Servers[i]].pc = "sleep" /\ nextTick(Servers[i]) > 0)

\* Chain.mainCycle is at the top of its loop and takes the default case of the
\* select: it starts, has come round, or the time.Sleep of the round before
\* is over, and no stop is asked for.
atLoop(n) ==
    /\ mc[n].pc = "loop" \/ (mc[n].pc = "sleep" /\ nextTick(n) <= 0)
    /\ ctl[n].rtStopCh = "open"
    /\ inOrder(n)

\* Chain.mainCycle after syncBlock: time.Sleep when the turn has not come,
\* else runCurrentTurn.
afterSync(n) == IF nextTick(n) > 0 THEN "sleep" ELSE "tick"

\* What FetchBlock(h) on peer p can answer to chain n; Nil: an error or no block.
FetchReplies(n, p, h) ==
    IF p \in remote
    THEN {Nil} \cup (IF envLeft > 0 THEN EnvBlocks(n) ELSE {})
    ELSE {FetchBlock(p, h)}

\* The peers syncBlock asks, in the order of the list.
Asked(n) == {i \in 1..Len(peers[n]) : peers[n][i] # n}

\* Chain.syncBlock when the block of the current turn is there already.
syncBlockIdle(n) ==
    /\ last = NoCall
    /\ atLoop(n)
    /\ ~(head[n].Height < nextTurn[n] - 1)
    /\ mc' = [mc EXCEPT ![n].pc = afterSync(n)]
    /\ UNCHANGED <<worker, acking, ctl, clients, now, remote, peers, nextTurn, head, bi, db, qi, pb, helpers,
                   envLeft, produced, last>>

\* Chain.syncBlock: the first peer that answers with a block; the block is
\* then sent on the blocks channel.
syncBlockFetch(n) ==
    /\ last = NoCall
    /\ atLoop(n)
    /\ head[n].Height < nextTurn[n] - 1
    /\ \E i \in Asked(n) :
         \E b \in FetchReplies(n, peers[n][i], nextTurn[n] - 1) \ {Nil} :
            /\ \A j \in Asked(n) :
                 j < i => Nil \in FetchReplies(n, peers[n][j], nextTurn[n] - 1)
            /\ mc' = [mc EXCEPT ![n] = [pc |-> "syncSend", blk |-> b, todo |-> {}]]
            /\ envLeft' = IF peers[n][i] \in remote THEN envLeft - 1 ELSE envLeft
    /\ UNCHANGED <<worker, acking, ctl, clients, now, remote, peers, nextTurn, head, bi, db, qi, pb, helpers,
                   produced, last>>

\* Chain.syncBlock: no peer answers with a block.
syncBlockNone(n) ==
    /\ last = NoCall
    /\ atLoop(n)
    /\ head[n].Height < nextTurn[n] - 1
    /\ \A j \in Asked(n) : Nil \in FetchReplies(n, peers[n][j], nextTurn[n] - 1)
    /\ mc' = [mc EXCEPT ![n].pc = afterSync(n)]
    /\ UNCHANGED <<worker, acking, ctl, clients, now, remote, peers, nextTurn, head, bi, db, qi, pb, helpers,
                   envLeft, produced, last>>

\* The deferred exit of runCurrentTurn, q being the query index it finds.
exitTurn(n, q) ==
    /\ nextTurn' = [nextTurn EXCEPT ![n] = @ + 1]
    /\ qi' = [qi EXCEPT ![n] = advanceBarrier(q, getMinValidHeight(n))]
    /\ mc' = [mc EXCEPT ![n] = [pc |-> "loop", blk |-> Nil, todo |-> {}]]

\* Chain.runCurrentTurn collecting the acks before the test of isMyTurn.
runCurrentTurnIdleMarks(n) ==
    /\ last = NoCall
    /\ mc[n].pc = "tick"
    /\ nextTick(n) <= 0
    /\ ~isMyTurn(n)
    /\ exitTurn(n, markAndCollectUnsignedAcks(qi[n], nextTurn[n]).qi)
    /\ UNCHANGED <<worker, acking, ctl, clients, now, remote, peers, head, bi, db, pb, helpers, envLeft,
                   produced, last>>

\* Chain.runCurrentTurn on a turn of another peer.
runCurrentTurnIdle(n) ==
    /\ last = NoCall
    /\ mc[n].pc = "tick"
    /\ nextTick(n) <= 0
    /\ ~isMyTurn(n)
    /\ exitTurn(n, qi[n])
    /\ UNCHANGED <<worker, acking, ctl, clients, now, remote, peers, head, bi, db, pb, helpers, envLeft,
                   produced, last>>

\* Chain.runCurrentTurn with the next turn set at its end and not in a
\* deferred function: a produceBlock that fails leaves the turn as it is.
produceBlockNoKeyNoExit(n) ==
    /\ last = NoCall
    /\ mc[n].pc = "tick"
    /\ nextTick(n) <= 0
    /\ isMyTurn(n)
    /\ mc' = [mc EXCEPT ![n] = [pc |-> "loop", blk |-> Nil, todo |-> {}]]
    /\ UNCHANGED <<worker, acking, ctl, clients, now, remote, peers, nextTurn, head, bi, db, qi, pb,
                   helpers, envLeft, produced, last>>

\* Chain.produceBlock: the local private key cannot be had.
produceBlockNoKey(n) ==
    /\ last = NoCall
    /\ mc[n].pc = "tick"
    /\ nextTick(n) <= 0
    /\ isMyTurn(n)
    /\ exitTurn(n, qi[n])
    /\ UNCHANGED <<worker, acking, ctl, clients, now, remote, peers, head, bi, db, pb, helpers, envLeft,
                   produced, last>>

\* Chain.produceBlock: the acks are collected, then signing fails.
produceBlockNoSign(n) ==
    /\ last = NoCall
    /\ mc[n].pc = "tick"
    /\ nextTick(n) <= 0
    /\ isMyTurn(n)
    /\ exitTurn(n, markAndCollectUnsignedAcks(qi[n], nextTurn[n]).qi)
    /\ UNCHANGED <<worker, acking, ctl, clients, now, remote, peers, head, bi, db, pb, helpers, envLeft,
                   produced, last>>

\* The block produceBlock packs at time t.
newBlock(n, t) ==
    [Producer |-> n, ParentHash |-> head[n].Head, Timestamp |-> t,
     Queries |-> markAndCollectUnsignedAcks(qi[n], nextTurn[n]).list, sig |-> TRUE]

\* Chain.produceBlock up to the send on the blocks channel.
produceBlock(n) ==
    /\ last = NoCall
    /\ mc[n].pc = "tick"
    /\ nextTick(n) <= 0
    /\ isMyTurn(n)
    /\ mc' = [mc EXCEPT ![n] = [pc |-> "prodSend", blk |-> newBlock(n, now), todo |-> {}]]
    /\ qi' = [qi EXCEPT ![n] = markAndCollectUnsignedAcks(qi[n], nextTurn[n]).qi]
    /\ produced' = [produced EXCEPT ![n] = @ \cup {newBlock(n, now)}]
    /\ UNCHANGED <<worker, acking, ctl, clients, now, remote, peers, nextTurn, head, bi, db, pb, helpers, envLeft, last>>

\* Chain.runCurrentTurn returns once every advise worker is done.
runCurrentTurnExit(n) ==
    /\ last = NoCall
    /\ mc[n].pc = "bcast"
    /\ mc[n].todo = {}
    /\ exitTurn(n, qi[n])
    /\ UNCHANGED <<worker, acking, ctl, clients, now, remote, peers, head, bi, db, pb, helpers, envLeft,
                   produced, last>>

\* The clock.
Tick ==
    /\ last = NoCall
    /\ now < MaxTime
    /\ now' = now + 1
    /\ UNCHANGED <<worker, acking, ctl, clients, remote, peers, nextTurn, head, bi, db, qi, mc, pb, helpers,
                   envLeft, produced, last>>

\* Chain n has nothing to do before the clock moves: mainCycle sleeps,
\* processBlocks waits for a block and no goroutine has one to send.
settled(n) ==
    /\ mc[n].pc = "sleep"
    /\ nextTick(n) > 0
    /\ pb[n].pc = "select"
    /\ helpers[n] = <<>>

\* The clock of chains that keep up with it: a step of a task takes no time.
TickSettled ==
    /\ \A n \in Nodes \ remote : settled(n)
    /\ Tick

----------------------------------------------------------------------------
\* processBlocks

\* case block := <-c.blocks
receive(n, b) == [pb EXCEPT ![n].pc = "exam", ![n].blk = b]

\* The task back at its select, the stash handed to a returnStash goroutine.
returnStash(n) ==
    /\ pb' = [pb EXCEPT ![n] = [pc |-> "select", blk |-> Nil, stash |-> <<>>, tx |-> Nil,
                                pre |-> Nil, missed |-> FALSE, via |-> "none"]]
    /\ helpers' = [helpers EXCEPT ![n] =
                      IF pb[n].stash # <<>> THEN Append(@, pb[n].stash) ELSE @]

\* The workers produceBlock starts: one for every server but the local one,
\* named by the place of the server in the list.
adviseWorkers(n) == {i \in 1..Len(peers[n]) : peers[n][i] # n}

\* processBlocks takes the block mainCycle sends: a fetched one (syncBlock goes
\* on to nextTick) or the produced one (produceBlock goes on to advise it).
receiveLocal(n) ==
    /\ last = NoCall
    /\ pb[n].pc = "select"
    /\ mc[n].pc \in {"syncSend", "prodSend"}
    /\ pb' = receive(n, mc[n].blk)
    /\ mc' = [mc EXCEPT ![n] =
                IF mc[n].pc = "prodSend"
                THEN [pc |-> "bcast", blk |-> mc[n].blk, todo |-> adviseWorkers(n)]
                ELSE [pc |-> afterSync(n), blk |-> Nil, todo |-> {}]]
    /\ UNCHANGED <<worker, acking, ctl, clients, now, remote, peers, nextTurn, head, bi, db, qi, helpers, envLeft,
                   produced, last>>

\* AdviseNewBlock from a remote peer: the handler sends the block on the
\* blocks channel.
receiveAdvised(n) ==
    /\ last = NoCall
    /\ pb[n].pc = "select"
    /\ envLeft > 0
    /\ \E b \in EnvBlocks(n) : pb' = receive(n, b)
    /\ envLeft' = envLeft - 1
    /\ UNCHANGED <<worker, acking, ctl, clients, now, remote, peers, nextTurn, head, bi, db, qi, mc, helpers,
                   produced, last>>

\* The server an advise worker calls: the worker reads the loop variable s
\* when it runs, and the loop may have moved on since the worker was started.
adviseTargets(p, i) == {peers[p][j] : j \in i..Len(peers[p])}

\* An advise worker of p calls a remote peer.
adviseRemote(p, i) ==
    /\ last = NoCall
    /\ mc[p].pc = "bcast"
    /\ i \in mc[p].todo
    /\ \E t \in adviseTargets(p, i) : t \in remote
    /\ mc' = [mc EXCEPT ![p].todo = @ \ {i}]
    /\ UNCHANGED <<worker, acking, ctl, clients, now, remote, peers, nextTurn, head, bi, db, qi, pb, helpers,
                   envLeft, produced, last>>

\* An advise worker of p calls chain t, whose handler sends the block on the
\* blocks channel of t.
adviseChain(p, i, t) ==
    /\ last = NoCall
    /\ mc[p].pc = "bcast"
    /\ i \in mc[p].todo
    /\ t \in adviseTargets(p, i) \ remote
    /\ pb[t].pc = "select"
    /\ pb' = receive(t, mc[p].blk)
    /\ mc' = [mc EXCEPT ![p].todo = @ \ {i}]
    /\ UNCHANGED <<worker, acking, ctl, clients, now, remote, peers, nextTurn, head, bi, db, qi, helpers, envLeft,
                   produced, last>>

\* A returnStash goroutine sends its next block.
receiveStashed(n, k) ==
    /\ last = NoCall
    /\ pb[n].pc = "select"
    /\ k \in 1..Len(helpers[n])
    /\ pb' = receive(n, Head(helpers[n][k]))
    /\ helpers' = [helpers EXCEPT ![n] =
                      IF Len(@[k]) = 1
                      THEN SubSeq(@, 1, k - 1) \o SubSeq(@, k + 1, Len(@))
                      ELSE [@ EXCEPT ![k] = Tail(@)]]
    /\ UNCHANGED <<worker, acking, ctl, clients, now, remote, peers, nextTurn, head, bi, db, qi, mc, envLeft,
                   produced, last>>

\* processBlocks: h > c.rt.getNextTurn()-1
isFuture(n, h) == h > nextTurn[n] - 1
\* processBlocks without the test for a turn gone by.
isPastNever(n, h) == FALSE
\* processBlocks: h < c.rt.getNextTurn()-1
isPast(n, h) == h < nextTurn[n] - 1

\* The height of the block processBlocks examines.
examined(n) == getHeightFromTime(pb[n].blk.Timestamp)

\* processBlocks with a stash of one block: a newer block takes the place of
\* the one stashed before.
stashBlockOverwrites(n) ==
    /\ last = NoCall
    /\ pb[n].pc = "exam"
    /\ isFuture(n, examined(n))
    /\ pb' = [pb EXCEPT ![n].pc = "select", ![n].blk = Nil,
                        ![n].stash = <<pb[n].blk>>]
    /\ UNCHANGED <<worker, acking, ctl, clients, now, remote, peers, nextTurn, head, bi, db, qi,
                   mc, helpers, envLeft, produced, last>>

\* processBlocks stashes a newer block.
stashBlock(n) ==
    /\ last = NoCall
    /\ pb[n].pc = "exam"
    /\ isFuture(n, examined(n))
    /\ pb' = [pb EXCEPT ![n].pc = "select", ![n].blk = Nil,
                        ![n].stash = Append(@, pb[n].blk)]
    /\ UNCHANGED <<worker, acking, ctl, clients, now, remote, peers, nextTurn, head, bi, db, qi, mc, helpers,
                   envLeft, produced, last>>

\* processBlocks leaves a block of a turn gone by aside.
dropBlock(n) ==
    /\ last = NoCall
    /\ pb[n].pc = "exam"
    /\ ~isFuture(n, examined(n))
    /\ isPast(n, examined(n))
    /\ returnStash(n)
    /\ UNCHANGED <<worker, acking, ctl, clients, now, remote, peers, nextTurn, head, bi, db, qi, mc, envLeft,
                   produced, last>>

\* processBlocks has a block of the current turn to push.
isCurrent(n) ==
    /\ pb[n].pc = "exam"
    /\ ~isFuture(n, examined(n))
    /\ ~isPast(n, examined(n))

\* Chain.pushBlock run beside another push: the head it reads as parent is
\* the one the other push replaces.
pushBlockOverlapped(n, b, q, via, missed) ==
    LET h == getHeightFromTime(b.Timestamp)
        stale == IF head[n].node.parent = Nil THEN head[n].node ELSE head[n].node.parent
        node == newBlockNode(h, b, stale)
    IN /\ head' = [head EXCEPT ![n] =
                      [Head |-> node.hash, Height |-> node.height, node |-> node]]
       /\ bi' = [bi EXCEPT ![n] = Put(@, node.hash, node)]
       /\ qi' = [qi EXCEPT ![n] = setSignedBlock(q, h, b)]
       /\ pb' = [pb EXCEPT ![n].pc = "commit",
                           ![n].tx = [state |-> [Head |-> node.hash, Height |-> node.height],
                                      key |-> indexKey(node), block |-> b],
                           ![n].pre = [head |-> head[n], bi |-> bi[n], peers |-> peers[n],
                                       flipped |-> {e \in q.acks :
                                          ~e.signed /\ AckHash(e.ack) \in Range(b.Queries)}],
                           ![n].missed = missed,
                           ![n].via = via]
\* Chain.pushBlock up to the end of the transaction function: both Puts are
\* done in the transaction, head, block index and query index are set; the
\* transaction is still to commit. q is the query index the call finds.
pushBlock(n, b, q, via, missed) ==
    LET h == getHeightFromTime(b.Timestamp)
        node == newBlockNode(h, b, head[n].node)
    IN /\ head' = [head EXCEPT ![n] =
                      [Head |-> node.hash, Height |-> node.height, node |-> node]]
       /\ bi' = [bi EXCEPT ![n] = Put(@, node.hash, node)]
       /\ qi' = [qi EXCEPT ![n] = setSignedBlock(q, h, b)]
       /\ pb' = [pb EXCEPT ![n].pc = "commit",
                           ![n].tx = [state |-> [Head |-> node.hash, Height |-> node.height],
                                      key |-> indexKey(node), block |-> b],
                           ![n].pre = [head |-> head[n], bi |-> bi[n], peers |-> peers[n],
                                       flipped |-> {e \in q.acks :
                                          ~e.signed /\ AckHash(e.ack) \in Range(b.Queries)}],
                           ![n].missed = missed,
                           ![n].via = via]

\* processBlocks pushes a block the local server produced.
pushOwnBlock(n) ==
    /\ last = NoCall
    /\ isCurrent(n)
    /\ pb[n].blk.Producer = n
    /\ pushBlock(n, pb[n].blk, qi[n], "pushBlock", FALSE)
    /\ UNCHANGED <<worker, acking, ctl, clients, now, remote, peers, nextTurn, db, mc, helpers, envLeft, produced, last>>

\* Chain.pushBlock: a Put fails, the transaction is rolled back.
pushOwnBlockNoPut(n) ==
    /\ last = NoCall
    /\ isCurrent(n)
    /\ pb[n].blk.Producer = n
    /\ returnStash(n)
    /\ last' = [Returned("pushBlock", n, "ErrPut") EXCEPT
                   !.blk = pb[n].blk,
                   !.pre = [head |-> head[n], bi |-> bi[n], flipped |-> {}]]
    /\ UNCHANGED <<worker, acking, ctl, clients, now, remote, peers, nextTurn, head, bi, db, qi, mc, envLeft, produced>>

\* The answers of the producer to the fetches of a check.
Replies(n, b) ==
    [1..Len(b.Queries) ->
        UNION {AckReplies(n, b.Producer, getHeightFromTime(b.Timestamp), b.Queries[i])
                  : i \in 1..Len(b.Queries)}]

\* processBlocks: CheckAndPushNewBlock turns the block of another peer down
\* (or finds it is head already); the acks it fetched stay.
checkBlockRejected(n) ==
    /\ last = NoCall
    /\ isCurrent(n)
    /\ pb[n].blk.Producer # n
    /\ \E replies \in Replies(n, pb[n].blk) :
          LET r == CheckAndPushNewBlock(n, pb[n].blk, replies)
          IN /\ r.err # NoErr
             /\ qi' = [qi EXCEPT ![n] = r.qi]
             /\ db' = [db EXCEPT ![n] = r.db]
             /\ last' = [Returned("CheckAndPushNewBlock", n,
                                  IF r.err = "same" THEN NoErr ELSE r.err) EXCEPT
                            !.blk = pb[n].blk, !.missed = r.missed,
                            !.pre = [head |-> head[n], bi |-> bi[n], qi |-> qi[n],
                                     db |-> db[n], peers |-> peers[n]]]
    /\ returnStash(n)
    /\ UNCHANGED <<worker, acking, ctl, clients, now, remote, peers, nextTurn, head, bi, mc, envLeft, produced>>

\* processBlocks: CheckAndPushNewBlock passes the block on to pushBlock.
checkBlockPushed(n) ==
    /\ last = NoCall
    /\ isCurrent(n)
    /\ pb[n].blk.Producer # n
    /\ \E replies \in Replies(n, pb[n].blk) :
          LET r == CheckAndPushNewBlock(n, pb[n].blk, replies)
          IN /\ r.err = NoErr
             /\ db' = [db EXCEPT ![n] = r.db]
             /\ pushBlock(n, pb[n].blk, r.qi, "CheckAndPushNewBlock", r.missed)
    /\ UNCHANGED <<worker, acking, ctl, clients, now, remote, peers, nextTurn, mc, helpers, envLeft, produced, last>>

\* CheckAndPushNewBlock: pushBlock fails on a Put.
checkBlockNoPut(n) ==
    /\ last = NoCall
    /\ isCurrent(n)
    /\ pb[n].blk.Producer # n
    /\ \E replies \in Replies(n, pb[n].blk) :
          LET r == CheckAndPushNewBlock(n, pb[n].blk, replies)
          IN /\ r.err = NoErr
             /\ qi' = [qi EXCEPT ![n] = r.qi]
             /\ db' = [db EXCEPT ![n] = r.db]
             /\ last' = [Returned("CheckAndPushNewBlock", n, "ErrPut") EXCEPT
                            !.blk = pb[n].blk, !.missed = r.missed,
                            !.pre = [head |-> head[n], bi |-> bi[n], flipped |-> {}]]
    /\ returnStash(n)
    /\ UNCHANGED <<worker, acking, ctl, clients, now, remote, peers, nextTurn, head, bi, mc, envLeft, produced>>

\* Chain.pushBlock with the state entry put in a transaction of its own.
commitStateOnly(n) ==
    /\ last = NoCall
    /\ pb[n].pc = "commit"
    /\ db' = [db EXCEPT ![n].state = pb[n].tx.state]
    /\ last' = [Returned(pb[n].via, n, "ErrCommit") EXCEPT
                   !.blk = pb[n].blk, !.missed = pb[n].missed, !.pre = pb[n].pre]
    /\ returnStash(n)
    /\ UNCHANGED <<worker, acking, ctl, clients, now, remote, peers, nextTurn, head, bi, qi, mc, envLeft, produced>>
\* Chain.pushBlock: the transaction commits.
commit(n) ==
    /\ last = NoCall
    /\ pb[n].pc = "commit"
    /\ db' = [db EXCEPT ![n].state = pb[n].tx.state,
                        ![n].blocks = Put(@, pb[n].tx.key, pb[n].tx.block)]
    /\ last' = [Returned(pb[n].via, n, NoErr) EXCEPT
                   !.blk = pb[n].blk, !.pushed = TRUE, !.missed = pb[n].missed,
                   !.pre = pb[n].pre]
    /\ returnStash(n)
    /\ UNCHANGED <<worker, acking, ctl, clients, now, remote, peers, nextTurn, head, bi, qi, mc, envLeft, produced>>

\* Chain.pushBlock: the transaction fails to commit and is rolled back.
commitFails(n) ==
    /\ last = NoCall
    /\ pb[n].pc = "commit"
    /\ last' = [Returned(pb[n].via, n, "ErrCommit") EXCEPT
                   !.blk = pb[n].blk, !.missed = pb[n].missed, !.pre = pb[n].pre]
    /\ returnStash(n)
    /\ UNCHANGED <<worker, acking, ctl, clients, now, remote, peers, nextTurn, head, bi, db, qi, mc, envLeft, produced>>

----------------------------------------------------------------------------
\* Calls of clients and peers.

\* A client acknowledges a query: Database.saveAck, VerifyAndPushAckedQuery,
\* on a store that is open.
saveAck(n, a, ok) ==
    LET r == VerifyAndPushAckedQuery(n, qi[n], db[n], a, ok)
    IN /\ last = NoCall
       /\ ctl[n].db = "open"
       /\ qi' = [qi EXCEPT ![n] = r.qi]
       /\ db' = [db EXCEPT ![n] = r.db]
       /\ last' = [Returned("VerifyAndPushAckedQuery", n, r.err) EXCEPT
                      !.req = AckHash(a), !.ack = a,
                      !.pre = [qi |-> qi[n], db |-> db[n]]]
       /\ UNCHANGED <<worker, acking, ctl, clients, now, remote, peers, nextTurn, head, bi, mc, pb, helpers, envLeft,
                      produced>>

\* VerifyAndPushAckedQuery up to the call of pushAckedQuery: the ack is not
\* expired by the head of now and its signature holds.
ackVerified(n, a) ==
    /\ last = NoCall
    /\ ctl[n].db = "open"
    /\ a \notin acking[n]
    /\ ~queryTimeIsExpired(n, a.ts)
    /\ acking' = [acking EXCEPT ![n] = @ \cup {a}]
    /\ UNCHANGED <<worker, ctl, clients, now, remote, peers, nextTurn, head, bi, db, qi, mc,
                   pb, helpers, envLeft, produced, last>>

\* VerifyAndPushAckedQuery goes on: pushAckedQuery puts the ack in the store
\* and adds it to the index of now.
ackPushed(n, a) ==
    LET r == pushAckedQuery(qi[n], db[n], a)
    IN /\ last = NoCall
       /\ ctl[n].db = "open"
       /\ a \in acking[n]
       /\ acking' = [acking EXCEPT ![n] = @ \ {a}]
       /\ qi' = [qi EXCEPT ![n] = r.qi]
       /\ db' = [db EXCEPT ![n] = r.db]
       /\ UNCHANGED <<worker, ctl, clients, now, remote, peers, nextTurn, head, bi, mc, pb,
                      helpers, envLeft, produced, last>>

\* Chain.UpdatePeers: the runtime takes the list ps for its peers.
UpdatePeers(n, ps) ==
    /\ last = NoCall
    /\ peers[n] # ps
    /\ peers' = [peers EXCEPT ![n] = ps]
    /\ UNCHANGED <<worker, acking, ctl, clients, now, remote, nextTurn, head, bi, db, qi, mc, pb,
                   helpers, envLeft, produced, last>>

\* The stored blocks of chain n that n produced and that list acks.
ownBlocks(n) ==
    {db[n].blocks[k] : k \in {x \in DOMAIN db[n].blocks : db[n].blocks[x].Producer = n}}

\* A peer asks the producer of an accepted block for an ack the block lists.
fetchAckedQuery(n) ==
    /\ last = NoCall
    /\ \E b \in ownBlocks(n) : \E i \in 1..Len(b.Queries) :
          LET r == FetchAckedQuery(n, getHeightFromTime(b.Timestamp), b.Queries[i])
          IN last' = [Returned("FetchAckedQuery", n, r.err) EXCEPT
                         !.blk = b, !.req = b.Queries[i], !.ack = r.ack]
    /\ UNCHANGED <<worker, acking, ctl, clients, now, remote, peers, nextTurn, head, bi, db, qi, mc, pb, helpers,
                   envLeft, produced>>

----------------------------------------------------------------------------
\* LoadChain

\* SignedHeader.VerifyAsGenesis: a signed block without a parent.
VerifyAsGenesis(b) == b.ParentHash = NoHash /\ b.sig

\* newBlockIndex: the index of a new Chain holds no node.
newBlockIndex == [x \in {} |-> Nil]

\* blockIndex.lookupNode
lookupNode(index, x) == IF x \in DOMAIN index THEN index[x] ELSE Nil

\* The orders in which blocks.ForEach of LoadChain can go through the blocks
\* of a store: the order in which they were put, which is the order of their
\* heights; blocks of one height come in any order.
Orders(d) ==
    {ord \in [1..Cardinality(DOMAIN d.blocks) -> DOMAIN d.blocks] :
        /\ \A i, j \in DOMAIN ord : i # j => ord[i] # ord[j]
        /\ \A i, j \in DOMAIN ord :
              i < j => getHeightFromTime(d.blocks[ord[i]].Timestamp)
                          <= getHeightFromTime(d.blocks[ord[j]].Timestamp)}

\* LoadChain: the function given to blocks.ForEach, from the i-th block of
\* the order on; lst is the node of the block before (`last`). The nodes go
\* into the local slice `nodes`; chain.bi is looked into and never added to.
RECURSIVE loadBlocks(_, _, _, _)
loadBlocks(d, ord, i, lst) ==
    IF i > Len(ord) THEN NoErr
    ELSE LET block == d.blocks[ord[i]]
             height == getHeightFromTime(block.Timestamp)
             parent == lookupNode(newBlockIndex, BlockHash(block))
         IN IF lst = Nil
            THEN IF ~VerifyAsGenesis(block) THEN "ErrVerify"
                 ELSE loadBlocks(d, ord, i + 1, newBlockNode(height, block, Nil))
            ELSE IF block.ParentHash = lst.hash
            THEN IF ~Verify(block) THEN "ErrVerify"
                 ELSE loadBlocks(d, ord, i + 1, newBlockNode(height, block, lst))
            ELSE IF parent = Nil THEN "ErrParentNotFound"
                 ELSE loadBlocks(d, ord, i + 1, newBlockNode(height, block, parent))

\* LoadChain: the acks of every height bucket are added to the new query
\* index.
RECURSIVE loadAcks(_, _)
loadAcks(q, S) ==
    IF S = {} THEN q
    ELSE LET r == CHOOSE x \in S : TRUE
         IN loadAcks(addAck(q, r.h, r.ack), S \ {r})

\* LoadChain on the store d, the blocks coming in the order ord: head is
\* the decoded state entry, which holds the hash and the height and no node;
\* the queries are read only when the blocks were read without error.
LoadChain(d, ord) ==
    LET err == loadBlocks(d, ord, 1, Nil)
        q0 == [barrier |-> 0, acks |-> {}]
    IN [err |-> err,
        head |-> [Head |-> d.state.Head, Height |-> d.state.Height, node |-> Nil],
        bi |-> newBlockIndex,
        qi |-> IF err = NoErr THEN loadAcks(q0, d.acks) ELSE q0]

\* The Chain LoadChain makes: new stop channels, the store open, no task run.
Loaded ==
    [rtStopCh |-> "open", stopCh |-> "open", rsCh |-> "open",
     processResponses |-> "done", processAcks |-> "done", db |-> "open"]

\* LoadChain is called on the store of chain n once Stop has closed it: the
\* chain of n is from then on the one LoadChain returns; it is not started.
loadChain(n) ==
    /\ last = NoCall
    /\ ctl[n].db = "closed"
    /\ \E ord \in Orders(db[n]) :
          LET r == LoadChain(db[n], ord)
          IN /\ head' = [head EXCEPT ![n] = r.head]
             /\ bi' = [bi EXCEPT ![n] = r.bi]
             /\ qi' = [qi EXCEPT ![n] = r.qi]
             /\ last' = [Returned("LoadChain", n, r.err) EXCEPT
                            !.pre = [head |-> head[n], bi |-> bi[n], qi |-> qi[n]]]
    /\ ctl' = [ctl EXCEPT ![n] = Loaded]
    /\ UNCHANGED <<worker, acking, clients, now, remote, peers, nextTurn, db, mc, pb, helpers, envLeft,
                   produced>>

----------------------------------------------------------------------------
\* Stop

\* The tasks of chain n the runtime's wait group still counts.
running(n) ==
    {t \in {"mainCycle", "processBlocks", "processResponses", "processAcks"} :
        \/ t = "mainCycle" /\ mc[n].pc # "done"
        \/ t = "processBlocks" /\ pb[n].pc # "done"
        \/ t = "processResponses" /\ ctl[n].processResponses = "run"
        \/ t = "processAcks" /\ ctl[n].processAcks = "run"}

\* Chain.Stop is called: rt.stop() closes rt.stopCh and waits for the tasks.
Stop(n) ==
    /\ last = NoCall
    /\ ctl[n].rtStopCh = "open"
    /\ ctl' = [ctl EXCEPT ![n].rtStopCh = "closed"]
    /\ UNCHANGED <<worker, acking, clients, now, remote, peers, nextTurn, head, bi, db, qi, mc, pb, helpers,
                   envLeft, produced, last>>

\* Chain.mainCycle returns without closing c.stopCh.
mainCycleReturnsNoClose(n) ==
    /\ last = NoCall
    /\ mc[n].pc \in {"loop", "sleep"}
    /\ ctl[n].rtStopCh = "closed"
    /\ mc' = [mc EXCEPT ![n].pc = "done"]
    /\ UNCHANGED <<worker, acking, ctl, clients, now, remote, peers, nextTurn, head, bi, db, qi, pb, helpers,
                   envLeft, produced, last>>
\* Chain.mainCycle finds rt.stopCh closed at the top of its loop (a time.Sleep
\* it is in runs to its end first) and returns: it is taken off the wait
\* group and c.stopCh is closed.
mainCycleReturns(n) ==
    /\ last = NoCall
    /\ mc[n].pc \in {"loop", "sleep"}
    /\ ctl[n].rtStopCh = "closed"
    /\ mc' = [mc EXCEPT ![n].pc = "done"]
    /\ ctl' = [ctl EXCEPT ![n].stopCh = "closed"]
    /\ UNCHANGED <<worker, acking, clients, now, remote, peers, nextTurn, head, bi, db, qi, pb, helpers,
                   envLeft, produced, last>>

\* Chain.processBlocks takes <-c.stopCh and returns: the deferred function
\* closes rsCh and waits for the returnStash goroutines.
processBlocksReturns(n) ==
    /\ last = NoCall
    /\ pb[n].pc = "select"
    /\ ctl[n].stopCh = "closed"
    /\ pb' = [pb EXCEPT ![n].pc = "closing"]
    /\ ctl' = [ctl EXCEPT ![n].rsCh = "closed"]
    /\ UNCHANGED <<worker, acking, clients, now, remote, peers, nextTurn, head, bi, db, qi, mc, helpers,
                   envLeft, produced, last>>

\* A returnStash goroutine takes <-rsCh and returns.
returnStashReturns(n, k) ==
    /\ last = NoCall
    /\ ctl[n].rsCh = "closed"
    /\ k \in 1..Len(helpers[n])
    /\ helpers' = [helpers EXCEPT ![n] = SubSeq(@, 1, k - 1) \o SubSeq(@, k + 1, Len(@))]
    /\ UNCHANGED <<worker, acking, ctl, clients, now, remote, peers, nextTurn, head, bi, db, qi, mc, pb,
                   envLeft, produced, last>>

\* The deferred function of processBlocks without rsWG.Wait().
processBlocksDoneNoWait(n) ==
    /\ last = NoCall
    /\ pb[n].pc = "closing"
    /\ pb' = [pb EXCEPT ![n].pc = "done"]
    /\ UNCHANGED <<worker, acking, ctl, clients, now, remote, peers, nextTurn, head, bi, db, qi, mc, helpers,
                   envLeft, produced, last>>
\* The deferred function of processBlocks: rsWG.Wait() is over, the task is
\* taken off the wait group.
processBlocksDone(n) ==
    /\ last = NoCall
    /\ pb[n].pc = "closing"
    /\ helpers[n] = <<>>
    /\ pb' = [pb EXCEPT ![n].pc = "done"]
    /\ UNCHANGED <<worker, acking, ctl, clients, now, remote, peers, nextTurn, head, bi, db, qi, mc, helpers,
                   envLeft, produced, last>>

\* Chain.processResponses takes <-c.stopCh and returns.
processResponses(n) ==
    /\ last = NoCall
    /\ ctl[n].processResponses = "run"
    /\ ctl[n].stopCh = "closed"
    /\ ctl' = [ctl EXCEPT ![n].processResponses = "done"]
    /\ UNCHANGED <<worker, acking, clients, now, remote, peers, nextTurn, head, bi, db, qi, mc, pb, helpers,
                   envLeft, produced, last>>

\* Chain.processAcks takes <-c.stopCh and returns.
processAcks(n) ==
    /\ last = NoCall
    /\ ctl[n].processAcks = "run"
    /\ ctl[n].stopCh = "closed"
    /\ ctl' = [ctl EXCEPT ![n].processAcks = "done"]
    /\ UNCHANGED <<worker, acking, clients, now, remote, peers, nextTurn, head, bi, db, qi, mc, pb, helpers,
                   envLeft, produced, last>>

\* Chain.Stop: rt.stop() returns when the wait group is empty, then the store
\* is closed.
StopReturns(n) ==
    /\ last = NoCall
    /\ ctl[n].rtStopCh = "closed"
    /\ ctl[n].db = "open"
    /\ running(n) = {}
    /\ ctl' = [ctl EXCEPT ![n].db = "closed"]
    /\ UNCHANGED <<worker, acking, clients, now, remote, peers, nextTurn, head, bi, db, qi, mc, pb, helpers,
                   envLeft, produced, last>>

\* The steps of a shutdown of chain n.
shutdown(n) ==
    \/ Stop(n)
    \/ mainCycleReturns(n)
    \/ processBlocksReturns(n)
    \/ \E k \in 1..MaxHeight + MaxEnv : returnStashReturns(n, k)
    \/ processBlocksDone(n)
    \/ processResponses(n)
    \/ processAcks(n)
    \/ StopReturns(n)

----------------------------------------------------------------------------
\* One chain among remote peers, with the failures of the store and of signing.

\* The steps of mainCycle on chain n when nothing fails.
mainCycle(n) ==
    \/ syncBlockIdle(n)
    \/ syncBlockNone(n)
    \/ runCurrentTurnIdle(n)
    \/ produceBlock(n)
    \/ runCurrentTurnExit(n)

\* The steps of processBlocks and of the returnStash goroutines on chain n
\* when nothing fails.
processBlocks(n) ==
    \/ receiveLocal(n)
    \/ \E k \in 1..MaxHeight + MaxEnv : receiveStashed(n, k)
    \/ stashBlock(n)
    \/ dropBlock(n)
    \/ pushOwnBlock(n)
    \/ commit(n)

\* Chain n gets and checks the blocks of other peers.
peerBlocks(n) ==
    \/ syncBlockFetch(n)
    \/ checkBlockRejected(n)
    \/ checkBlockPushed(n)

\* The calls from and to the remote peers of chain n.
remotePeers(n) ==
    \/ receiveAdvised(n)
    \/ \E i \in 1..Len(Servers) : adviseRemote(n, i)

\* The failures of the key store, of signing and of the store.
failures(n) ==
    \/ produceBlockNoKey(n)
    \/ produceBlockNoSign(n)
    \/ pushOwnBlockNoPut(n)
    \/ checkBlockNoPut(n)
    \/ commitFails(n)

\* The caller of the call that returned last takes the result.
resultTaken ==
    /\ last # NoCall
    /\ last' = NoCall
    /\ UNCHANGED <<worker, acking, ctl, clients, now, remote, peers, nextTurn, head, bi, db, qi, mc, pb, helpers,
                   envLeft, produced>>

\* The steps of chain n among remote peers.
chain(n) ==
    \/ mainCycle(n)
    \/ processBlocks(n)
    \/ \E i \in 1..Len(Servers) : \E t \in Nodes : adviseChain(n, i, t)
    \/ peerBlocks(n)
    \/ remotePeers(n)
    \/ failures(n)

Next ==
    \/ resultTaken
    \/ Tick
    \/ chain(Servers[3])

Spec == Init /\ [][Next]_vars

----------------------------------------------------------------------------
\* What holds of a chain among remote peers.

\* pushBlock has just returned nil to processBlocks for the block last.blk.
Accepted ==
    /\ last.op \in {"pushBlock", "CheckAndPushNewBlock"}
    /\ last.err = NoErr
    /\ last.pushed

\* The heights of the nodes from a node back to the root.
heights(node) == [i \in 1..Len(chainOf(node)) |-> chainOf(node)[i].height]

\* C1: a block accepted at height h names as its parent the block at height
\* h - 1 of the chain it is pushed on.
C1_ParentAtPreviousHeight ==
    Accepted =>
        LET h == getHeightFromTime(last.blk.Timestamp)
            prev == ancestor(last.pre.head.node, h - 1)
        IN prev # Nil /\ prev.hash = last.blk.ParentHash

\* C2: the producer of a block accepted at height h is the peer at index
\* h mod |peers| of the peer list.
C2_ProducerOfHeight ==
    Accepted =>
        LET h == getHeightFromTime(last.blk.Timestamp)
            ps == peers[last.n]
        IN last.blk.Producer = ps[(h % Len(ps)) + 1]

\* C3: the head height of a chain never decreases.
C3_HeadHeightMonotone ==
    [][\A n \in Nodes : head'[n].Height >= head[n].Height]_vars

\* C3 is seen at work: a chain has pushed two blocks on its genesis block, one
\* of its own and one of another peer.
C3_TwoPushes ==
    \E n \in Nodes :
        /\ Len(chainOf(head[n].node)) >= 3
        /\ \E k \in DOMAIN db[n].blocks : db[n].blocks[k].Producer = n
        /\ \E k \in DOMAIN db[n].blocks : db[n].blocks[k].Producer \notin {n, Genesis.Producer}

\* C4: the main chain of a node holds at most one block of a height.
C4_OneBlockPerHeight ==
    \A n \in Nodes :
        \A i, j \in 1..Len(chainOf(head[n].node)) :
            i # j => heights(head[n].node)[i] # heights(head[n].node)[j]

\* C10: when pushBlock fails to persist, head and block index are what they
\* were before the call, no ack was marked signed, and head is the head the
\* store holds.
C10_FailedPushLeavesMemory ==
    (last.op \in {"pushBlock", "CheckAndPushNewBlock"} /\ last.err \in {"ErrPut", "ErrCommit"}) =>
        /\ head[last.n] = last.pre.head
        /\ bi[last.n] = last.pre.bi
        /\ last.pre.flipped = {}
        /\ db[last.n].state = [Head |-> head[last.n].Head, Height |-> head[last.n].Height]

\* C11: what is in memory is in the store: the head and every node of the
\* block index are blocks of the store, and every ack of the query index is
\* an ack of the store under its height.
C11_MemoryIsCommitted ==
    \A n \in Nodes :
        /\ head[n].Head \in DOMAIN db[n].blocks
        /\ \A x \in DOMAIN bi[n] : x \in DOMAIN db[n].blocks
        /\ \A e \in qi[n].acks : [h |-> e.h, ack |-> e.ack] \in db[n].acks

\* C14: the head hash of the state entry of a store is the hash of a block of
\* the block-index bucket, at whatever point of a pushBlock the store is
\* looked at.
C14_StateNamesStoredBlock ==
    \A n \in Nodes :
        /\ db[n].state.Head \in DOMAIN db[n].blocks
        /\ BlockHash(db[n].blocks[db[n].state.Head]) = db[n].state.Head
        /\ getHeightFromTime(db[n].blocks[db[n].state.Head].Timestamp) = db[n].state.Height

\* C14 is seen at work: a pushBlock has put state and block in a transaction
\* that is not committed, on a store that holds a block pushed before.
C14_OpenTransaction ==
    \E n \in Nodes :
        /\ pb[n].pc = "commit"
        /\ pb[n].tx.state.Head \notin DOMAIN db[n].blocks
        /\ db[n].state.Height > 0

C19_WrongProducerRejected ==
    (/\ last.op = "CheckAndPushNewBlock"
     /\ "head" \in DOMAIN last.pre
     /\ last.blk.ParentHash = last.pre.head.Head
     /\ Find(peers[last.n], last.blk.Producer).found
     /\ Find(peers[last.n], last.blk.Producer).index #
            (last.pre.head.Height + 1) % Len(peers[last.n]))
    => /\ last.err = "ErrInvalidProducer"
       /\ head[last.n] = last.pre.head
       /\ bi[last.n] = last.pre.bi
       /\ db[last.n] = last.pre.db

\* C19 is seen at work: a signed block on the head, of the turn the chain is
\* in, from a peer whose turn it is not, was turned down for its producer.
C19_PeerOutOfTurn ==
    /\ last.op = "CheckAndPushNewBlock"
    /\ last.err = "ErrInvalidProducer"
    /\ last.blk.sig
    /\ last.blk.ParentHash = head[last.n].Head
    /\ last.blk.Producer \in Nodes
    /\ getHeightFromTime(last.blk.Timestamp) = head[last.n].Height + 1

\* C24: a runCurrentTurn that returns (on a turn of another peer, after a
\* block was produced and advised, or after produceBlock failed) has set the
\* next turn one higher and has advanced the barrier of the query index to
\* the least valid height; the next turn changes in no other step and never
\* goes down.
C24_TurnAdvancesOnExit ==
    [][\A n \in Nodes :
          /\ (mc[n].pc \in {"tick", "prodSend", "bcast"} /\ mc'[n].pc = "loop") =>
                 /\ nextTurn'[n] = nextTurn[n] + 1
                 /\ qi'[n].barrier >= getMinValidHeight(n)
                 /\ \A e \in qi'[n].acks : e.h >= getMinValidHeight(n)
          /\ nextTurn'[n] # nextTurn[n] =>
                 /\ mc[n].pc \in {"tick", "bcast"}
                 /\ mc'[n].pc = "loop"
                 /\ nextTurn'[n] > nextTurn[n]]_vars

\* C24 is seen at work: the second turn was the chain's own, produceBlock
\* failed in it, and the chain is in its third turn.
C24_FailedTurnIsOver ==
    \E n \in Nodes :
        /\ peers[n][(2 % Len(peers[n])) + 1] = n
        /\ nextTurn[n] = 3
        /\ produced[n] = {}
        /\ mc[n].pc = "loop"

\* The blocks processBlocks of chain n has taken and not yet pushed or
\* dropped: the one it examines, its stash, and what its returnStash
\* goroutines still have to send.
held(n) ==
    (IF pb[n].pc = "exam" THEN {pb[n].blk} ELSE {})
    \cup Range(pb[n].stash)
    \cup UNION {Range(helpers[n][k]) : k \in 1..Len(helpers[n])}

\* C27: head changes only when processBlocks examines a block of height
\* nextTurn - 1; a block of a greater height goes to the stash, a block of a
\* lesser height leaves head, block index and store alone, and a block that
\* is still of a turn to come stays with processBlocks or its goroutines.
C27_OnlyCurrentBlocksPushed ==
    [][\A n \in Nodes :
          /\ head'[n] # head[n] =>
                 (pb[n].pc = "exam" /\ examined(n) = nextTurn[n] - 1)
          /\ (pb[n].pc = "exam" /\ examined(n) > nextTurn[n] - 1 /\ pb'[n] # pb[n]) =>
                 /\ pb'[n].stash = Append(pb[n].stash, pb[n].blk)
                 /\ head'[n] = head[n] /\ bi'[n] = bi[n] /\ db'[n] = db[n]
          /\ (pb[n].pc = "exam" /\ examined(n) < nextTurn[n] - 1 /\ pb'[n] # pb[n]) =>
                 (head'[n] = head[n] /\ bi'[n] = bi[n] /\ db'[n] = db[n])
          /\ \A b \in held(n) :
                 getHeightFromTime(b.Timestamp) > nextTurn[n] - 1 => b \in held(n)']_vars

\* C27 is seen at work: a returnStash goroutine has a block to send that is
\* still of a turn to come, and processBlocks has stashed another block.
C27_FutureBlockGoesRound ==
    \E n \in Nodes :
        /\ pb[n].stash # <<>>
        /\ \E k \in 1..Len(helpers[n]) : \E b \in Range(helpers[n][k]) :
               getHeightFromTime(b.Timestamp) > nextTurn[n] - 1

\* C35: the node pushBlock makes for a block has as parent the node whose
\* hash is the ParentHash of the block.
C35_ParentNodeIsParentHash ==
    [][\A n \in Nodes :
          head'[n] # head[n] =>
              /\ head'[n].node.hash = BlockHash(pb[n].blk)
              /\ head'[n].node.parent # Nil
              /\ head'[n].node.parent.hash = pb[n].blk.ParentHash]_vars

\* The blocks chain n has stashed as blocks of a turn to come and not yet
\* examined again: its stash and what its returnStash goroutines have to send.
waiting(n) ==
    Range(pb[n].stash)
    \cup UNION {Range(helpers[n][k]) : k \in 1..Len(helpers[n])}

\* C28: every block processBlocks has stashed is examined again when its
\* height is nextTurn - 1; nextTurn never goes back, so a block that waits
\* to be examined again is never of a turn gone by.
C28_StashedBlockStillCurrent ==
    \A n \in Nodes : \A b \in waiting(n) :
        getHeightFromTime(b.Timestamp) >= nextTurn[n] - 1

\* C30: an advise worker of produceBlock never calls the local node: when a
\* worker of chain p has made its call, processBlocks of p has received
\* nothing.
C30_NoAdviseToLocalNode ==
    [][\A p \in Nodes :
          (mc[p].pc = "bcast" /\ mc'[p].pc = "bcast" /\ mc'[p].todo # mc[p].todo) =>
              pb'[p] = pb[p]]_vars

----------------------------------------------------------------------------
\* One chain whose peers send it no block: clients acknowledge queries, peers
\* fetch acks, nothing fails, the chain keeps up with the clock.

InitSolo == NewChain(Nodes \ {Servers[3]}, 0, Acks)

NextSolo ==
    \/ resultTaken
    \/ TickSettled
    \/ mainCycle(Servers[3])
    \/ receiveLocal(Servers[3])
    \/ \E k \in 1..MaxHeight + MaxEnv : receiveStashed(Servers[3], k)
    \/ stashBlock(Servers[3])
    \/ pushOwnBlock(Servers[3])
    \/ commit(Servers[3])
    \/ \E i \in 1..Len(Servers) : adviseChain(Servers[3], i, Servers[3])
    \/ \E i \in 1..Len(Servers) : adviseRemote(Servers[3], i)
    \/ \E a \in Acks : \E ok \in BOOLEAN : saveAck(Servers[3], a, ok)
    \/ fetchAckedQuery(Servers[3])

SpecSolo == InitSolo /\ [][NextSolo]_vars

\* The block is in the store of chain n.
persisted(n, b) ==
    /\ BlockHash(b) \in DOMAIN db[n].blocks
    /\ db[n].blocks[BlockHash(b)] = b

\* C6: a block the local chain produced is persisted by the local chain; it
\* is so at the latest when its turn is over and processBlocks has no block
\* left to look at, for a block of a turn gone by is never pushed.
C6_ProducedBlockPersisted ==
    \A n \in Nodes : \A b \in produced[n] :
        (settled(n) /\ isPast(n, getHeightFromTime(b.Timestamp))) => persisted(n, b)

\* C8: FetchAckedQuery on the producer of a stored block returns, for an ack
\* hash the block lists, the ack of that hash.
C8_ListedAckIsFetched ==
    last.op = "FetchAckedQuery" =>
        /\ last.err = NoErr
        /\ last.ack = AckOfHash(last.req)

\* C9: VerifyAndPushAckedQuery returns ErrQueryExpired exactly when the height
\* of the ack's time is below head height - QueryTTL, and then leaves the
\* store and the query index as they were.
C9_ExpiredExactly ==
    last.op = "VerifyAndPushAckedQuery" =>
        /\ (last.err = "ErrQueryExpired") <=>
              ((last.ack.ts - GenesisTime) \div Period < head[last.n].Height - QueryTTL)
        /\ last.err = "ErrQueryExpired" =>
              (qi[last.n] = last.pre.qi /\ db[last.n] = last.pre.db)

\* C9 is seen at work: an ack one period too old has just been turned down,
\* and an ack of the period after it is in the store.
C9_ExpiredAtTheEdge ==
    /\ last.op = "VerifyAndPushAckedQuery"
    /\ last.err = "ErrQueryExpired"
    /\ (last.ack.ts - GenesisTime) \div Period = head[last.n].Height - QueryTTL - 1
    /\ \E r \in db[last.n].acks : r.h = head[last.n].Height - QueryTTL

\* The acks of a query index that are marked signed.
signedAcks(q) == {e.ack : e \in {x \in q.acks : x.signed}}

\* C23: runCurrentTurn on a turn of another peer produces no block, has
\* nothing to send on the blocks channel and nobody to advise, marks no ack
\* signed and leaves head, store and processBlocks alone.
C23_IdleTurnDoesNothing ==
    [][\A n \in Nodes :
          (mc[n].pc = "tick" /\ ~isMyTurn(n) /\ mc'[n] # mc[n]) =>
              /\ produced'[n] = produced[n]
              /\ mc'[n].blk = Nil
              /\ mc'[n].todo = {}
              /\ pb'[n] = pb[n]
              /\ helpers'[n] = helpers[n]
              /\ signedAcks(qi'[n]) \subseteq signedAcks(qi[n])
              /\ head'[n] = head[n]
              /\ db'[n] = db[n]]_vars

\* C23 is seen at work: the first turn, which is not the chain's, has run on
\* a chain that has an unsigned ack of a height below that turn.
C23_IdleTurnWithAck ==
    \E n \in Nodes :
        /\ nextTurn[n] = 2
        /\ peers[n][(1 % Len(peers[n])) + 1] # n
        /\ mc[n].pc = "loop"
        /\ \E e \in qi[n].acks : ~e.signed /\ e.h < 1
        /\ head[n].Height = 0

----------------------------------------------------------------------------
\* The three chains run, every call between them is answered, nothing fails,
\* the chains keep up with the clock.

InitNet == NewChain({}, 0, {})

NextNet ==
    \/ resultTaken
    \/ TickSettled
    \/ \E n \in Nodes :
          \/ mainCycle(n)
          \/ processBlocks(n)
          \/ \E i \in 1..Len(Servers) : \E t \in Nodes : adviseChain(n, i, t)
          \/ peerBlocks(n)

SpecNet == InitNet /\ [][NextNet]_vars

\* The turns 1, 2 and 3 have run on every chain and every chain is at rest.
threeTurnsRun == \A n \in Nodes : nextTurn[n] >= 4 /\ settled(n)

\* C5: after the first three turns the heads of A, B and C are the same block,
\* of height 3 (whichever peer produced it).
C5_HeadsAgreeAfterThreeTurns ==
    threeTurnsRun =>
        /\ \A n, m \in Nodes : head[n].Head = head[m].Head
        /\ \A n \in Nodes : head[n].Height = 3

----------------------------------------------------------------------------
\* One chain among remote peers: clients acknowledge queries, the blocks of
\* the remote peers list acks, nothing fails, the chain keeps up with the
\* clock.

InitQuery == NewChain(Nodes \ {Servers[3]}, MaxEnv, Acks)

NextQuery ==
    \/ resultTaken
    \/ TickSettled
    \/ mainCycle(Servers[3])
    \/ processBlocks(Servers[3])
    \/ \E i \in 1..Len(Servers) : adviseChain(Servers[3], i, Servers[3])
    \/ peerBlocks(Servers[3])
    \/ remotePeers(Servers[3])
    \/ \E a \in Acks : saveAck(Servers[3], a, TRUE)

SpecQuery == InitQuery /\ [][NextQuery]_vars

\* C20: CheckAndPushNewBlock on a block that is not the head and whose
\* ParentHash is not the hash of the head returns ErrInvalidBlock, whoever
\* produced the block, whatever acks it lists and however it is signed; head,
\* block index, query index and store are what they were.
C20_WrongParentRejected ==
    (/\ last.op = "CheckAndPushNewBlock"
     /\ "head" \in DOMAIN last.pre
     /\ ~(/\ last.pre.head.Height = getHeightFromTime(last.blk.Timestamp)
          /\ last.pre.head.Head = BlockHash(last.blk))
     /\ last.blk.ParentHash # last.pre.head.Head)
    => /\ last.err = "ErrInvalidBlock"
       /\ head[last.n] = last.pre.head
       /\ bi[last.n] = last.pre.bi
       /\ qi[last.n] = last.pre.qi
       /\ db[last.n] = last.pre.db

\* C20 is seen at work: the block turned down for its parent is of a producer
\* that is no peer, is not signed well and lists an ack the chain does not
\* know.
C20_EveryDefectAtOnce ==
    /\ last.op = "CheckAndPushNewBlock"
    /\ last.err = "ErrInvalidBlock"
    /\ last.blk.Producer = Stranger
    /\ ~last.blk.sig
    /\ last.blk.Queries # <<>>
    /\ ~checkAckFromBlock(qi[last.n], getHeightFromTime(last.blk.Timestamp),
                          last.blk.Queries[1])

\* C34: a CheckAndPushNewBlock that returns an error leaves head, block
\* index, query index and store, its acks included, as they were before the
\* call.
C34_RejectedBlockLeavesNothing ==
    (/\ last.op = "CheckAndPushNewBlock"
     /\ last.err # NoErr
     /\ "qi" \in DOMAIN last.pre)
    => /\ head[last.n] = last.pre.head
       /\ bi[last.n] = last.pre.bi
       /\ qi[last.n] = last.pre.qi
       /\ db[last.n] = last.pre.db

\* C7: CheckAndPushNewBlock does not push a block when the check after the
\* fetch of a listed ack still does not find the ack: it returns an error and
\* head is what it was.
C7_MissedAckRejectsBlock ==
    (last.op = "CheckAndPushNewBlock" /\ last.missed) =>
        /\ last.err # NoErr
        /\ ~last.pushed

----------------------------------------------------------------------------
\* One chain whose peers send it no block and that is stopped at some time:
\* clients acknowledge queries, nothing fails, the chain keeps up with the
\* clock.

InitStop == NewChain(Nodes \ {Servers[3]}, 0, Acks)

NextStop ==
    \/ resultTaken
    \/ TickSettled
    \/ mainCycle(Servers[3])
    \/ receiveLocal(Servers[3])
    \/ \E k \in 1..MaxHeight + MaxEnv : receiveStashed(Servers[3], k)
    \/ stashBlock(Servers[3])
    \/ pushOwnBlock(Servers[3])
    \/ commit(Servers[3])
    \/ \E i \in 1..Len(Servers) : adviseChain(Servers[3], i, Servers[3])
    \/ \E i \in 1..Len(Servers) : adviseRemote(Servers[3], i)
    \/ \E a \in Acks : saveAck(Servers[3], a, TRUE)
    \/ shutdown(Servers[3])
    \/ loadChain(Servers[3])

SpecStop == InitStop /\ [][NextStop]_vars

\* The acks of a query index with their heights.
ackedAt(q) == {[h |-> e.h, ack |-> e.ack] : e \in q.acks}

\* C12: LoadChain on the store of a stopped chain succeeds and gives the head
\* the chain had, a block index with one node for every stored block, and a
\* query index with the acks the chain had, height by height.
C12_LoadChainRestores ==
    last.op = "LoadChain" =>
        /\ last.err = NoErr
        /\ head[last.n].Head = last.pre.head.Head
        /\ head[last.n].Height = last.pre.head.Height
        /\ Cardinality(DOMAIN bi[last.n]) = Cardinality(DOMAIN db[last.n].blocks)
        /\ ackedAt(qi[last.n]) = ackedAt(last.pre.qi)

\* C36: in the query index LoadChain rebuilds, every ack whose hash a stored
\* block lists is marked as signed.
C36_LoadedListedAcksAreSigned ==
    (last.op = "LoadChain" /\ last.err = NoErr) =>
        \A e \in qi[last.n].acks :
            (\E x \in DOMAIN db[last.n].blocks :
                 AckHash(e.ack) \in Range(db[last.n].blocks[x].Queries))
            => e.signed

\* C15: the store of a chain is closed only when mainCycle, processBlocks,
\* processResponses, processAcks and every returnStash goroutine have
\* returned.
C15_ClosedAfterTasks ==
    \A n \in Nodes :
        ctl[n].db = "closed" => (running(n) = {} /\ helpers[n] = <<>>)

\* C15 is seen at work: the store of a chain that has pushed a block and
\* saved an ack is closed.
C15_ClosedAfterWork ==
    \E n \in Nodes :
        /\ ctl[n].db = "closed"
        /\ head[n].Height > 0
        /\ db[n].acks # {}

\* The steps of processBlocks and of its returnStash goroutines on the chain.
blocksTask ==
    \/ receiveLocal(Servers[3])
    \/ \E k \in 1..MaxHeight + MaxEnv : receiveStashed(Servers[3], k)
    \/ stashBlock(Servers[3])
    \/ pushOwnBlock(Servers[3])
    \/ commit(Servers[3])
    \/ processBlocksReturns(Servers[3])
    \/ \E k \in 1..MaxHeight + MaxEnv : returnStashReturns(Servers[3], k)
    \/ processBlocksDone(Servers[3])

\* The steps of the advise goroutines of produceBlock.
adviseTask ==
    \/ \E i \in 1..Len(Servers) : adviseChain(Servers[3], i, Servers[3])
    \/ \E i \in 1..Len(Servers) : adviseRemote(Servers[3], i)

\* Every goroutine that can take a step takes one in the end, and so do the
\* callers of Stop and of the calls that returned.
SpecStopFair ==
    /\ SpecStop
    /\ WF_vars(resultTaken)
    /\ SF_vars(mainCycle(Servers[3]) \/ mainCycleReturns(Servers[3]))
    /\ SF_vars(blocksTask)
    /\ SF_vars(adviseTask)
    /\ SF_vars(processResponses(Servers[3]))
    /\ SF_vars(processAcks(Servers[3]))
    /\ SF_vars(StopReturns(Servers[3]))

\* C16: once Stop is called on a chain, Stop returns in the end: mainCycle,
\* processBlocks, processResponses, processAcks and every returnStash
\* goroutine have returned and the store is closed.
C16_StopReturns ==
    \A n \in Nodes : (ctl[n].rtStopCh = "closed") ~> (ctl[n].db = "closed")

\* C16 is seen at work: processBlocks has taken the stop and closed rsCh
\* while a returnStash goroutine still has a block to send.
C16_HelperAtShutdown ==
    \E n \in Nodes :
        /\ ctl[n].rsCh = "closed"
        /\ helpers[n] # <<>>

----------------------------------------------------------------------------
\* One chain among remote peers that is stopped at some time and loaded
\* again: nothing fails, the chain keeps up with the clock.

InitLoad == NewChain(Nodes \ {Servers[3]}, MaxEnv, {})

NextLoad ==
    \/ resultTaken
    \/ TickSettled
    \/ mainCycle(Servers[3])
    \/ processBlocks(Servers[3])
    \/ \E i \in 1..Len(Servers) : adviseChain(Servers[3], i, Servers[3])
    \/ peerBlocks(Servers[3])
    \/ remotePeers(Servers[3])
    \/ shutdown(Servers[3])
    \/ loadChain(Servers[3])

SpecLoad == InitLoad /\ [][NextLoad]_vars

\* The stored blocks of a store whose ParentHash is the hash of no stored
\* block; the genesis block has no ParentHash.
orphans(d) ==
    {k \in DOMAIN d.blocks :
        d.blocks[k].ParentHash # NoHash /\ d.blocks[k].ParentHash \notin DOMAIN d.blocks}

\* C13: LoadChain fails with ErrParentNotFound only when the ParentHash of a
\* stored block names no stored block.
C13_ParentNotFoundOnlyForOrphans ==
    (last.op = "LoadChain" /\ last.err = "ErrParentNotFound") => orphans(db[last.n]) # {}

----------------------------------------------------------------------------
\* A chain that is the one peer of its database: every turn is its own, and
\* clients acknowledge queries, a call of VerifyAndPushAckedQuery running
\* beside the two tasks.

InitOne == NewChainOf(<<Servers[3]>>, Nodes \ {Servers[3]}, 0, Acks)

\* The clock of the one-peer chain runs one turn longer, for the chain to
\* produce a block after the index has forgotten a height.
MaxTimeOne == MaxTime + Period

TickOne ==
    /\ last = NoCall
    /\ settled(Servers[3])
    /\ now < MaxTimeOne
    /\ now' = now + 1
    /\ UNCHANGED <<worker, acking, ctl, clients, remote, peers, nextTurn, head, bi, db, qi, mc, pb,
                   helpers, envLeft, produced, last>>

NextOne ==
    \/ resultTaken
    \/ TickOne
    \/ syncBlockIdle(Servers[3])
    \/ syncBlockNone(Servers[3])
    \/ produceBlock(Servers[3])
    \/ runCurrentTurnExit(Servers[3])
    \/ receiveLocal(Servers[3])
    \/ \E k \in 1..MaxHeight + 1 : receiveStashed(Servers[3], k)
    \/ stashBlock(Servers[3])
    \/ dropBlock(Servers[3])
    \/ pushOwnBlock(Servers[3])
    \/ commit(Servers[3])
    \/ \E a \in Acks : ackVerified(Servers[3], a)
    \/ \E a \in Acks : ackPushed(Servers[3], a)

SpecOne == InitOne /\ [][NextOne]_vars

\* C18: an ack is handed out once: markAndCollectUnsignedAcks called again
\* with the same turn gives the empty list, and no ack hash is listed by two
\* blocks that one chain produced.
C18_AckInOneBlock ==
    \A n \in Nodes :
        /\ markAndCollectUnsignedAcks(
               markAndCollectUnsignedAcks(qi[n], nextTurn[n]).qi, nextTurn[n]).list = <<>>
        /\ \A b1, b2 \in produced[n] :
               b1 # b2 => Range(b1.Queries) \cap Range(b2.Queries) = {}

----------------------------------------------------------------------------
\* One chain among remote peers that send it a block more than once: nothing
\* fails, the chain keeps up with the clock.

InitAgain == NewChain(Nodes \ {Servers[3]}, MaxEnv + 1, {})

NextAgain ==
    \/ resultTaken
    \/ TickSettled
    \/ mainCycle(Servers[3])
    \/ processBlocks(Servers[3])
    \/ \E i \in 1..Len(Servers) : adviseChain(Servers[3], i, Servers[3])
    \/ peerBlocks(Servers[3])
    \/ remotePeers(Servers[3])

SpecAgain == InitAgain /\ [][NextAgain]_vars

\* C21: CheckAndPushNewBlock on the block that is the head (its height and
\* its hash) returns nil and pushes nothing: head, block index, query index
\* and store are what they were, however often the block comes.
C21_HeadAgainIsNoOp ==
    (/\ last.op = "CheckAndPushNewBlock"
     /\ "head" \in DOMAIN last.pre
     /\ last.pre.head.Height = getHeightFromTime(last.blk.Timestamp)
     /\ last.pre.head.Head = BlockHash(last.blk))
    => /\ last.err = NoErr
       /\ ~last.pushed
       /\ head[last.n] = last.pre.head
       /\ bi[last.n] = last.pre.bi
       /\ qi[last.n] = last.pre.qi
       /\ db[last.n] = last.pre.db

\* C21 is seen at work: a block of another peer that the chain pushed before
\* came again while it was the head, and the call returned nil.
C21_HeadCameAgain ==
    /\ last.op = "CheckAndPushNewBlock"
    /\ ~last.pushed
    /\ last.err = NoErr
    /\ head[last.n].Head = BlockHash(last.blk)
    /\ head[last.n].Height >= 1
    /\ BlockHash(last.blk) \in DOMAIN db[last.n].blocks

----------------------------------------------------------------------------
\* One chain among remote peers whose peer list is replaced by the empty
\* list at some time: nothing fails, the chain keeps up with the clock.

InitPeers == NewChain(Nodes \ {Servers[3]}, MaxEnv, {})

NextPeers ==
    \/ resultTaken
    \/ TickSettled
    \/ mainCycle(Servers[3])
    \/ processBlocks(Servers[3])
    \/ \E i \in 1..Len(Servers) : adviseChain(Servers[3], i, Servers[3])
    \/ peerBlocks(Servers[3])
    \/ remotePeers(Servers[3])
    \/ UpdatePeers(Servers[3], <<>>)

SpecPeers == InitPeers /\ [][NextPeers]_vars

----------------------------------------------------------------------------
\* NewChain and Start as calls: no chain is built at first; NewChain is
\* called for the third server with a block for genesis, Start on the chain
\* NewChain returned; the chain then runs as the one whose peers send it no
\* block.

\* What NewChain may be given for Config.Genesis.
GenesisBlocks ==
    {[Genesis EXCEPT !.ParentHash = p, !.sig = g] : p \in {NoHash, BogusHash}, g \in BOOLEAN}

\* No chain, no task, no store.
NotStarted ==
    [rtStopCh |-> "none", stopCh |-> "none", rsCh |-> "none",
     processResponses |-> "none", processAcks |-> "none", db |-> "none"]

\* The state before NewChain: the head of a new runtime, indexes and store
\* empty, no task.
InitNew ==
    /\ now = GenesisTime
    /\ remote = Nodes \ {Servers[3]}
    /\ peers = [n \in Nodes |-> Servers]
    /\ nextTurn = [n \in Nodes |-> 1]
    /\ head = [n \in Nodes |-> [Head |-> NoHash, Height |-> 0, node |-> Nil]]
    /\ bi = [n \in Nodes |-> newBlockIndex]
    /\ db = [n \in Nodes |-> [state |-> Nil, blocks |-> newBlockIndex, acks |-> {}]]
    /\ qi = [n \in Nodes |-> [barrier |-> 0, acks |-> {}]]
    /\ mc = [n \in Nodes |-> [pc |-> "none", blk |-> Nil, todo |-> {}]]
    /\ pb = [n \in Nodes |->
                [pc |-> "none", blk |-> Nil, stash |-> <<>>, tx |-> Nil,
                 pre |-> Nil, missed |-> FALSE, via |-> "none"]]
    /\ helpers = [n \in Nodes |-> <<>>]
    /\ envLeft = 0
    /\ clients = Acks
    /\ produced = [n \in Nodes |-> {}]
    /\ ctl = [n \in Nodes |-> NotStarted]
    /\ acking = [n \in Nodes |-> {}]
    /\ worker = NoLimit
    /\ last = NoCall

\* NewChain with the test of the genesis block put after pushBlock.
newChainFailsLate(n, g) ==
    LET node == newBlockNode(getHeightFromTime(g.Timestamp), g, head[n].node)
    IN /\ last = NoCall
       /\ ctl[n].db = "none"
       /\ ~VerifyAsGenesis(g)
       /\ db' = [db EXCEPT ![n].state = [Head |-> node.hash, Height |-> node.height],
                           ![n].blocks = Put(@, indexKey(node), g)]
       /\ ctl' = [ctl EXCEPT ![n].db = "open"]
       /\ last' = [Returned("NewChain", n, "ErrVerify") EXCEPT
                      !.blk = g, !.pre = [head |-> head[n], bi |-> bi[n], db |-> db[n]]]
       /\ UNCHANGED <<worker, acking, clients, now, remote, peers, nextTurn, head, bi, qi, mc, pb,
                      helpers, envLeft, produced>>

\* NewChain: Genesis.VerifyAsGenesis fails; NewChain returns the error and no
\* chain, the data file is not opened.
newChainFails(n, g) ==
    /\ last = NoCall
    /\ ctl[n].db = "none"
    /\ ~VerifyAsGenesis(g)
    /\ last' = [Returned("NewChain", n, "ErrVerify") EXCEPT
                   !.blk = g, !.pre = [head |-> head[n], bi |-> bi[n], db |-> db[n]]]
    /\ UNCHANGED <<worker, acking, ctl, clients, now, remote, peers, nextTurn, head, bi, db, qi, mc,
                   pb, helpers, envLeft, produced>>

\* NewChain: the genesis block is sound, the store is opened, pushBlock fails
\* and NewChain returns the error and no chain; the data file stays held by
\* the handle nobody has.
newChainNoPush(n, g) ==
    /\ last = NoCall
    /\ ctl[n].db = "none"
    /\ VerifyAsGenesis(g)
    /\ ctl' = [ctl EXCEPT ![n].db = "held"]
    /\ last' = [Returned("NewChain", n, "ErrPut") EXCEPT
                   !.blk = g, !.pre = [head |-> head[n], bi |-> bi[n], db |-> db[n]]]
    /\ UNCHANGED <<worker, acking, clients, now, remote, peers, nextTurn, head, bi, db, qi, mc, pb,
                   helpers, envLeft, produced>>

\* NewChain: the genesis block is sound, the store is opened, pushBlock puts
\* state and block and sets head and block index; the chain is returned.
newChain(n, g) ==
    LET node == newBlockNode(getHeightFromTime(g.Timestamp), g, head[n].node)
    IN /\ last = NoCall
       /\ ctl[n].db = "none"
       /\ VerifyAsGenesis(g)
       /\ head' = [head EXCEPT ![n] =
                      [Head |-> node.hash, Height |-> node.height, node |-> node]]
       /\ bi' = [bi EXCEPT ![n] = Put(@, node.hash, node)]
       /\ qi' = [qi EXCEPT ![n] = setSignedBlock(@, node.height, g)]
       /\ db' = [db EXCEPT ![n].state = [Head |-> node.hash, Height |-> node.height],
                           ![n].blocks = Put(@, indexKey(node), g)]
       /\ ctl' = [ctl EXCEPT ![n].db = "open", ![n].stopCh = "open"]
       /\ last' = [Returned("NewChain", n, NoErr) EXCEPT
                      !.blk = g, !.pushed = TRUE,
                      !.pre = [head |-> head[n], bi |-> bi[n], db |-> db[n]]]
       /\ UNCHANGED <<worker, acking, clients, now, remote, peers, nextTurn, mc, pb, helpers, envLeft,
                      produced>>

\* Chain.sync: the next turn is brought up to the turn of the time of now.
sync(n) ==
    IF nextTurn[n] >= getHeightFromTime(now) THEN nextTurn[n]
    ELSE getHeightFromTime(now) + 1

\* Chain.Start on the chain NewChain returned: sync, then the tasks.
Start(n) ==
    /\ last = NoCall
    /\ ctl[n].stopCh = "open"
    /\ mc[n].pc = "none"
    /\ nextTurn' = [nextTurn EXCEPT ![n] = sync(n)]
    /\ mc' = [mc EXCEPT ![n].pc = "loop"]
    /\ pb' = [pb EXCEPT ![n].pc = "select"]
    /\ ctl' = [ctl EXCEPT ![n] = Started]
    /\ UNCHANGED <<worker, acking, clients, now, remote, peers, head, bi, db, qi, helpers, envLeft,
                   produced, last>>

NextNew ==
    \/ \E g \in GenesisBlocks : newChainFails(Servers[3], g)
    \/ \E g \in GenesisBlocks : newChainNoPush(Servers[3], g)
    \/ \E g \in GenesisBlocks : newChain(Servers[3], g)
    \/ Start(Servers[3])
    \/ NextSolo

SpecNew == InitNew /\ [][NextNew]_vars

\* C25: NewChain tests the genesis block before it opens the store: with a
\* block that fails VerifyAsGenesis it returns an error and no chain, and the
\* store is neither opened nor changed; when NewChain returns a chain, the
\* genesis block is its head and in its block index, and the store holds it
\* as the state and under its hash.
C25_NewChainVerifiesFirst ==
    last.op = "NewChain" =>
        /\ ~VerifyAsGenesis(last.blk) =>
               /\ last.err # NoErr
               /\ ctl[last.n].db = "none"
               /\ ctl[last.n].stopCh = "none"
               /\ db[last.n] = last.pre.db
        /\ last.err = NoErr =>
               /\ VerifyAsGenesis(last.blk)
               /\ ctl[last.n].stopCh = "open"
               /\ head[last.n].Head = BlockHash(last.blk)
               /\ head[last.n].Height = getHeightFromTime(last.blk.Timestamp)
               /\ lookupNode(bi[last.n], BlockHash(last.blk)) = head[last.n].node
               /\ head[last.n].node.hash = BlockHash(last.blk)
               /\ db[last.n].state = [Head |-> BlockHash(last.blk),
                                      Height |-> getHeightFromTime(last.blk.Timestamp)]
               /\ lookupNode(db[last.n].blocks, BlockHash(last.blk)) = last.blk

\* C25 is seen at work: NewChain was given a signed block that names a
\* parent, and returned the error of VerifyAsGenesis.
C25_GenesisWithParent ==
    /\ last.op = "NewChain"
    /\ last.err = "ErrVerify"
    /\ last.blk.sig
    /\ last.blk.ParentHash # NoHash
    /\ db[last.n].state = Nil

----------------------------------------------------------------------------
\* worker.Database: write queries on a database with a SpaceLimit, the
\* storage file growing with the queries that are applied.

\* Database.writeQuery with the storage file turned down from SpaceLimit on.
writeQueryAtLimit(w, ok) ==
    IF w.SpaceLimit > 0 /\ w.stat = "denied" THEN [err |-> "ErrStat", apply |-> FALSE]
    ELSE IF w.SpaceLimit > 0 /\ w.stat = "ok" /\ w.size >= w.SpaceLimit
         THEN [err |-> "ErrSpaceLimitExceeded", apply |-> FALSE]
    ELSE [err |-> IF ok THEN NoErr ELSE "apply failed", apply |-> TRUE]

\* Database.writeQuery on the database w: the error it returns and whether
\* it has called kayakRuntime.Apply; ok is the outcome of Apply.
writeQuery(w, ok) ==
    IF w.SpaceLimit > 0 /\ w.stat = "denied" THEN [err |-> "ErrStat", apply |-> FALSE]
    ELSE IF w.SpaceLimit > 0 /\ w.stat = "ok" /\ w.size > w.SpaceLimit
         THEN [err |-> "ErrSpaceLimitExceeded", apply |-> FALSE]
    ELSE [err |-> IF ok THEN NoErr ELSE "apply failed", apply |-> TRUE]

\* kayakRuntime.Apply: an applied write leaves the storage file there, grown
\* by `grow`; a failed one leaves it alone.
Apply(w, grow, ok) ==
    IF ok
    THEN [w EXCEPT !.stat = IF @ = "denied" THEN @ ELSE "ok",
                   !.size = @ + grow, !.applied = @ + 1]
    ELSE [w EXCEPT !.applied = @ + 1]

\* Database.Query with a write query.
Query(grow, ok) ==
    LET r == writeQuery(worker, ok)
    IN /\ last = NoCall
       /\ worker.applied < MaxWrites
       /\ worker.size + grow <= MaxSize + 1
       /\ worker' = IF r.apply THEN Apply(worker, grow, ok) ELSE worker
       /\ last' = [Returned("writeQuery", Servers[3], r.err) EXCEPT !.pre = worker]
       /\ UNCHANGED <<acking, ctl, clients, now, remote, peers, nextTurn, head, bi, db, qi,
                      mc, pb, helpers, envLeft, produced>>

\* Database.Query with a query that is neither a read nor a write.
QueryInvalid ==
    /\ last = NoCall
    /\ last' = [Returned("Query", Servers[3], "ErrInvalidRequest") EXCEPT !.pre = worker]
    /\ UNCHANGED <<worker, acking, ctl, clients, now, remote, peers, nextTurn, head, bi, db,
                   qi, mc, pb, helpers, envLeft, produced>>

\* The databases: a SpaceLimit or none, the storage file missing, not to be
\* looked at, or of some size.
Databases ==
    {[SpaceLimit |-> l, stat |-> "ok", size |-> z, applied |-> 0]
        : l \in 0..MaxSize, z \in 0..MaxSize + 1}
    \cup {[SpaceLimit |-> l, stat |-> st, size |-> 0, applied |-> 0]
        : l \in 0..MaxSize, st \in {"missing", "denied"}}

InitWrite == \E w \in Databases : NewChainWith(Servers, Nodes \ {Servers[3]}, 0, {}, w)

NextWrite ==
    \/ resultTaken
    \/ \E grow \in 0..1 : \E ok \in BOOLEAN : Query(grow, ok)
    \/ QueryInvalid

SpecWrite == InitWrite /\ [][NextWrite]_vars

\* C26: writeQuery on a database with a SpaceLimit above 0 and a storage file
\* larger than it returns ErrSpaceLimitExceeded, calls no Apply and changes
\* nothing; without a SpaceLimit, with a file no larger than it or with no
\* file, it hands the query to Apply.
C26_SpaceLimit ==
    last.op = "writeQuery" =>
        /\ (last.pre.SpaceLimit > 0 /\ last.pre.stat = "ok"
                /\ last.pre.size > last.pre.SpaceLimit) =>
               /\ last.err = "ErrSpaceLimitExceeded"
               /\ worker = last.pre
        /\ (\/ last.pre.SpaceLimit = 0
            \/ last.pre.stat = "ok" /\ last.pre.size <= last.pre.SpaceLimit
            \/ last.pre.stat = "missing") =>
               /\ last.err # "ErrSpaceLimitExceeded"
               /\ worker.applied = last.pre.applied + 1

\* C26 is seen at work: a write was applied to a file of the size of the
\* SpaceLimit, that earlier writes had made.
C26_WriteAtTheLimit ==
    /\ last.op = "writeQuery"
    /\ last.err = NoErr
    /\ last.pre.SpaceLimit > 0
    /\ last.pre.stat = "ok"
    /\ last.pre.size = last.pre.SpaceLimit
    /\ last.pre.applied >= 1
    /\ worker.size > worker.SpaceLimit

----------------------------------------------------------------------------
\* syncBlock call by call: what it asks of which peer, and what it sends on
\* the blocks channel.

\* The loop of syncBlock without its break: every peer is asked, the block of
\* the last one that has one is sent.
RECURSIVE fetchFromNoBreak(_, _, _, _)
fetchFromNoBreak(n, replies, i, asked) ==
    IF i > Len(peers[n]) THEN [asked |-> asked, blk |-> Nil]
    ELSE IF peers[n][i] = n THEN fetchFromNoBreak(n, replies, i + 1, asked)
    ELSE LET call == [peer |-> peers[n][i], height |-> nextTurn[n] - 1,
                      blk |-> replies[i]]
             r == fetchFromNoBreak(n, replies, i + 1, Append(asked, call))
         IN IF r.blk = Nil THEN [r EXCEPT !.blk = replies[i]] ELSE r

\* The loop of syncBlock from server i of the list on, replies[i] being what
\* server i answers (Nil: an error or no block): the calls made, and the
\* block sent on the blocks channel.
RECURSIVE fetchFrom(_, _, _, _)
fetchFrom(n, replies, i, asked) ==
    IF i > Len(peers[n]) THEN [asked |-> asked, blk |-> Nil]
    ELSE IF peers[n][i] = n THEN fetchFrom(n, replies, i + 1, asked)
    ELSE LET call == [peer |-> peers[n][i], height |-> nextTurn[n] - 1,
                      blk |-> replies[i]]
         IN IF replies[i] = Nil
            THEN fetchFrom(n, replies, i + 1, Append(asked, call))
            ELSE [asked |-> Append(asked, call), blk |-> replies[i]]

\* Chain.syncBlock, the calls it made recorded.
syncBlock(n, replies) ==
    /\ last = NoCall
    /\ atLoop(n)
    /\ LET r == IF head[n].Height < nextTurn[n] - 1
                THEN fetchFrom(n, replies, 1, <<>>)
                ELSE [asked |-> <<>>, blk |-> Nil]
       IN /\ mc' = [mc EXCEPT ![n] =
                       IF r.blk = Nil
                       THEN [@ EXCEPT !.pc = afterSync(n)]
                       ELSE [pc |-> "syncSend", blk |-> r.blk, todo |-> {}]]
          /\ envLeft' = IF r.blk # Nil /\ r.asked[Len(r.asked)].peer \in remote
                        THEN envLeft - 1 ELSE envLeft
          /\ last' = [Returned("syncBlock", n, NoErr) EXCEPT
                         !.req = r.asked, !.blk = r.blk,
                         !.pre = [height |-> head[n].Height, turn |-> nextTurn[n],
                                  servers |-> peers[n]]]
    /\ UNCHANGED <<worker, acking, ctl, clients, now, remote, peers, nextTurn, head, bi, db,
                   qi, pb, helpers, produced>>

\* What the servers of chain n from server i on can answer to
\* FetchBlock(nextTurn - 1), one answer for each.
RECURSIVE repliesFrom(_, _)
repliesFrom(n, i) ==
    IF i > Len(peers[n]) THEN {<<>>}
    ELSE {<<x>> \o t : x \in FetchReplies(n, peers[n][i], nextTurn[n] - 1),
                       t \in repliesFrom(n, i + 1)}

SyncReplies(n) == repliesFrom(n, 1)

InitSync == NewChain(Nodes \ {Servers[3]}, MaxEnv, {})

NextSync ==
    \/ resultTaken
    \/ TickSettled
    \/ \E replies \in SyncReplies(Servers[3]) : syncBlock(Servers[3], replies)
    \/ runCurrentTurnIdle(Servers[3])
    \/ produceBlock(Servers[3])
    \/ runCurrentTurnExit(Servers[3])
    \/ processBlocks(Servers[3])
    \/ \E i \in 1..Len(Servers) : adviseChain(Servers[3], i, Servers[3])
    \/ checkBlockRejected(Servers[3])
    \/ checkBlockPushed(Servers[3])
    \/ remotePeers(Servers[3])

SpecSync == InitSync /\ [][NextSync]_vars

\* The servers of a list other than n, in the order of the list.
othersOf(ps, n) == SelectSeq(ps, LAMBDA t : t # n)

\* C29: syncBlock calls no peer when head.Height >= nextTurn - 1; otherwise
\* it asks the other servers in the order of the list for the block of height
\* nextTurn - 1, makes no call after the first answer with a block, sends that
\* block and no other on the blocks channel, and sends nothing when no server
\* answers with a block.
C29_SyncBlockAsksInOrder ==
    last.op = "syncBlock" =>
        LET n == last.n
            others == othersOf(last.pre.servers, n)
            k == Len(last.req)
        IN /\ last.pre.height >= last.pre.turn - 1 => (k = 0 /\ last.blk = Nil)
           /\ last.pre.height < last.pre.turn - 1 =>
                 /\ k <= Len(others)
                 /\ \A j \in 1..k : /\ last.req[j].peer = others[j]
                                    /\ last.req[j].height = last.pre.turn - 1
                 /\ \A j \in 1..k - 1 : last.req[j].blk = Nil
                 /\ last.blk = (IF k > 0 THEN last.req[k].blk ELSE Nil)
                 /\ last.blk = Nil => k = Len(others)
           /\ mc[n].pc = "syncSend" <=> last.blk # Nil
           /\ last.blk # Nil => mc[n].blk = last.blk

\* C29 is seen at work: the first server asked had no block, the second one
\* answered with a block, which is on its way to processBlocks.
C29_SecondPeerAnswers ==
    /\ last.op = "syncBlock"
    /\ Len(last.req) = 2
    /\ last.req[1].blk = Nil
    /\ last.blk # Nil
    /\ mc[last.n].pc = "syncSend"

----------------------------------------------------------------------------
\* NewDatabase: the chain, the kayak WAL and the kayak runtime of a database
\* of the worker, and what becomes of them when NewDatabase fails.

\* A database not made yet: the configuration w, no chain, no WAL, no kayak
\* runtime.
notMade(w) ==
    [SpaceLimit |-> w.SpaceLimit, stat |-> w.stat, size |-> w.size,
     applied |-> w.applied, chain |-> "none", kayakWal |-> "none",
     kayakRuntime |-> "none"]

\* What NewDatabase is called with and what the calls it makes come to:
\* MkdirAll, the peers (there or nil), the genesis block (Nil: none),
\* storage.NewDSN, kms.GetLocalNodeID, the store of NewChain, NewLevelDBWal
\* and kayak.NewRuntime.
NewDatabaseInputs ==
    [mkdir : BOOLEAN, peers : BOOLEAN, genesis : GenesisBlocks \cup {Nil},
     dsn : BOOLEAN, nodeID : BOOLEAN, store : BOOLEAN, wal : BOOLEAN,
     runtime : BOOLEAN]

\* The deferred function of NewDatabase on an error: the kayak runtime is
\* shut down if there is one, the chain is stopped if there is one.
recycle(w) ==
    [w EXCEPT !.kayakRuntime = IF @ # "none" THEN "shutdown" ELSE @,
              !.chain = IF @ # "none" THEN "stopped" ELSE @]

\* NewDatabase on the database w: the database it leaves and the error it
\* returns.
newDatabase(w, in) ==
    IF ~in.mkdir THEN [db |-> w, err |-> "ErrMkdir"]
    ELSE IF ~in.peers \/ in.genesis = Nil THEN [db |-> w, err |-> "ErrInvalidDBConfig"]
    ELSE IF ~in.dsn THEN [db |-> recycle(w), err |-> "ErrDSN"]
    ELSE IF ~in.nodeID THEN [db |-> recycle(w), err |-> "ErrNodeID"]
    ELSE IF ~VerifyAsGenesis(in.genesis) THEN [db |-> recycle(w), err |-> "ErrVerify"]
    ELSE IF ~in.store THEN [db |-> recycle(w), err |-> "ErrPut"]
    ELSE LET chained == [w EXCEPT !.chain = "started"]
         IN IF ~in.wal THEN [db |-> recycle(chained), err |-> "ErrWal"]
            ELSE LET logged == [chained EXCEPT !.kayakWal = "open"]
                 IN IF ~in.runtime
                    THEN [db |-> recycle(logged), err |-> "ErrRuntime"]
                    ELSE [db |-> [logged EXCEPT !.kayakRuntime = "started"],
                          err |-> NoErr]

\* NewDatabase
NewDatabase(in) ==
    LET r == newDatabase(worker, in)
    IN /\ last = NoCall
       /\ worker.chain = "none"
       /\ worker' = r.db
       /\ last' = [Returned("NewDatabase", Servers[3], r.err) EXCEPT !.pre = worker]
       /\ UNCHANGED <<acking, ctl, clients, now, remote, peers, nextTurn, head, bi, db, qi,
                      mc, pb, helpers, envLeft, produced>>

\* Database.Query with a write query on the database NewDatabase returned.
served(grow, ok) ==
    /\ worker.kayakRuntime = "started"
    /\ Query(grow, ok)

\* Database.Shutdown: the kayak runtime is shut down, the WAL closed, the
\* chain stopped.
Shutdown ==
    /\ last = NoCall
    /\ worker.kayakRuntime = "started"
    /\ worker' = [worker EXCEPT !.kayakRuntime = "shutdown", !.kayakWal = "closed",
                                !.chain = "stopped"]
    /\ last' = [Returned("Shutdown", Servers[3], NoErr) EXCEPT !.pre = worker]
    /\ UNCHANGED <<acking, ctl, clients, now, remote, peers, nextTurn, head, bi, db, qi,
                   mc, pb, helpers, envLeft, produced>>

InitDatabase ==
    \E w \in Databases : NewChainWith(Servers, Nodes \ {Servers[3]}, 0, {}, notMade(w))

NextDatabase ==
    \/ resultTaken
    \/ \E in \in NewDatabaseInputs : NewDatabase(in)
    \/ \E grow \in 0..1 : \E ok \in BOOLEAN : served(grow, ok)
    \/ Shutdown

SpecDatabase == InitDatabase /\ [][NextDatabase]_vars

\* C31: when NewDatabase returns an error, no chain is left started, no
\* kayak runtime left running and no kayak WAL left open; with nil peers or
\* no genesis block it returns ErrInvalidDBConfig and has made no chain.
C31_FailedNewDatabaseReleases ==
    last.op = "NewDatabase" =>
        /\ last.err # NoErr =>
               /\ worker.chain # "started"
               /\ worker.kayakRuntime \notin {"created", "started"}
               /\ worker.kayakWal # "open"
        /\ last.err = "ErrInvalidDBConfig" => worker.chain = "none"

----------------------------------------------------------------------------
\* A chain among remote peers that send it blocks in its own name.

\* The blocks a remote peer can send to chain n that name n as producer and
\* that n has not produced: of the turn n is in or of the one before, on the
\* head of n or on no block n has, signed well or not.
ForgedBlocks(n) ==
    {b \in [Producer : {n},
            ParentHash : {head[n].Head, BogusHash},
            Timestamp : {GenesisTime + h * Period : h \in 0..MaxHeight},
            Queries : {<<>>},
            sig : BOOLEAN] :
        getHeightFromTime(b.Timestamp) \in {nextTurn[n] - 1, nextTurn[n]}}
    \ produced[n]

\* AdviseNewBlock from a remote peer with a block in the name of chain n: the
\* handler sends the block on the blocks channel.
receiveForged(n) ==
    /\ last = NoCall
    /\ pb[n].pc = "select"
    /\ envLeft > 0
    /\ \E b \in ForgedBlocks(n) : pb' = receive(n, b)
    /\ envLeft' = envLeft - 1
    /\ UNCHANGED <<worker, acking, ctl, clients, now, remote, peers, nextTurn, head, bi, db,
                   qi, mc, helpers, produced, last>>

InitForged == NewChain(Nodes \ {Servers[3]}, MaxEnv, {})

NextForged ==
    \/ NextAgain
    \/ receiveForged(Servers[3])

SpecForged == InitForged /\ [][NextForged]_vars

\* C32: a block that becomes head and that the chain has not produced itself
\* has passed the checks of CheckAndPushNewBlock: it is on the head, its
\* producer is the server whose turn it is, and Block.Verify holds of it.
C32_OnlyOwnBlocksUnverified ==
    [][\A n \in Nodes :
          (head'[n] # head[n] /\ pb[n].blk \notin produced[n]) =>
              /\ pb[n].blk.ParentHash = head[n].Head
              /\ Find(peers[n], pb[n].blk.Producer).found
              /\ Find(peers[n], pb[n].blk.Producer).index =
                     (head[n].Height + 1) % Len(peers[n])
              /\ Verify(pb[n].blk)]_vars

----------------------------------------------------------------------------
\* One chain whose clients acknowledge queries and whose signing may fail.

NextSign ==
    \/ NextSolo
    \/ produceBlockNoSign(Servers[3])

SpecSign == InitSolo /\ [][NextSign]_vars

\* The blocks of chain n that are on the way to pushBlock: the one
\* produceBlock sends, and those processBlocks and its goroutines hold.
onTheWay(n) ==
    held(n) \cup (IF mc[n].pc = "prodSend" THEN {mc[n].blk} ELSE {})

\* The hashes of the blocks on the main chain of chain n.
mainChain(n) == {node.hash : node \in Range(chainOf(head[n].node))}

\* C33: an ack the query index has marked as signed is listed by a block that
\* is on the main chain or on its way to pushBlock.
C33_SignedAckIsInABlock ==
    \A n \in Nodes : \A e \in qi[n].acks :
        e.signed =>
            \E b \in produced[n] :
                /\ AckHash(e.ack) \in Range(b.Queries)
                /\ b \in onTheWay(n) \/ BlockHash(b) \in mainChain(n)

====
